---- MODULE Spec2Model ----
(***************************************************************************)
(* Model of the orchestration core of xhs_project: TaskScheduler           *)
(* (task_scheduler.py), the BrowserManager session life cycle              *)
(* (browser_manager.py), the entitlement state of LicenseClient            *)
(* (license_client.py) and the run tasks of the three services, at the     *)
(* granularity of the asyncio event loop: one action is what one task      *)
(* executes between two suspension points.                                 *)
(*                                                                         *)
(* asyncio facts the translation relies on (Python >= 3.8):                *)
(*  - awaiting a coroutine that never suspends (svc.stop()) or a task that *)
(*    is already done does not yield to the event loop;                    *)
(*  - asyncio.CancelledError derives from BaseException, so                *)
(*    "except Exception" does not catch it;                                *)
(*  - awaiting a task that ended cancelled raises CancelledError in the    *)
(*    awaiter.                                                             *)
(*  - a cancellation is thrown into a task at the await it is suspended   *)
(*    on; finally clauses run, and their own awaits suspend again.         *)
(* Playwright facts: the context of launch_persistent_context has no       *)
(* browser object; context.pages lists the pages in the order they were    *)
(* opened; a persistent context starts with one page.                      *)
(* Time is counted in units of 3600 seconds.                               *)
(***************************************************************************)
EXTENDS Integers, Sequences, FiniteSets, TLC

\* ---------------------------------------------------------------- bounds
MaxTasks == 2
MaxSess == 1
MaxLaunch == 3
MaxNow == 2
MaxPages == 3
MaxItems == 2
MaxRuns == 2
MaxWatch == 2
MaxNodes == 2
MaxGroups == 2
MaxKeywordsLen == 4
MaxCountLen == 5
MaxUrls == 2
MaxComRuns == 2
MaxTargets == 2
MaxColRuns == 2
MaxKws == 2
MaxCap == 2
MaxCards == 2

\* ------------------------------------------------------------- constants
Collector == "XHSCollectorService"
Commenter == "XHSCommenterService"
Listener == "XHSListenerService"
Names == {Collector, Commenter, Listener}

\* a service name that __main__ never registered
Unregistered == {"NoSuchService"}

\* activate(): offline / missing expiry grace of 3600 s = 1 time unit
OfflineTtl == 1

\* the tasks of app._startup plus the HTTP request handler
Procs == {"loop", "api", "remote", "local"}

VARIABLES
    tasks,      \* TaskScheduler.tasks: insertion-ordered dict, <<name, task>> pairs
    runs,       \* the asyncio tasks created by start_service, by task id
    running,    \* svc._running of each registered service
    lsOwner,    \* the Listener run whose sub-routines XHSListenerService._tasks holds (0: empty)
    proc,       \* position of run_loop, the periodic checks and the HTTP handler
    ctx,        \* BrowserManager._context (0: None)
    pw,         \* BrowserManager._pw (0: None)
    lock,       \* holder of BrowserManager._lock (0: free)
    sess,       \* the driver/session objects ever started, by id
    data,       \* LicenseClient.data
    now,        \* int(time.time())
    polled,     \* what the previous poll of run_loop observed
    evt,        \* what the last step did at the scheduler's public surface
    obs,        \* what the last step's entitlement check observed and did
    pgs,        \* the pages ever opened in the session (context.pages), by id
    thr,        \* position of each borrower of pages (a run or sub-routine)
    lis,        \* one XHSListenerService instance: its flag, _tasks, runs, sub-routines
    mon,        \* one _monitor_item sub-routine: last_seen_ids, the page, xhs_comments
    com,        \* one XHSCommenterService instance and the run it executes
    db,         \* the xhs_items table and the calls made on it
    fn,         \* a pure function of a service: its argument and what it returned
    col         \* one XHSCollectorService instance and the run it executes

vars == <<tasks, runs, running, lsOwner, proc, ctx, pw, lock, sess, data, now,
          polled, evt, obs, pgs, thr, lis, mon, com, db, fn, col>>

pageVars == <<pgs, thr>>

svcVars == <<lis, mon, com, db, fn, col>>

\* ------------------------------------------------- dict (ordered) helpers
Has(d, n) == \E i \in DOMAIN d : d[i][1] = n
Get(d, n) == IF Has(d, n) THEN d[CHOOSE i \in DOMAIN d : d[i][1] = n][2] ELSE 0
Put(d, n, t) ==
    IF Has(d, n) THEN [i \in DOMAIN d |-> IF d[i][1] = n THEN <<n, t>> ELSE d[i]]
    ELSE Append(d, <<n, t>>)
Pop(d, n) == SelectSeq(d, LAMBDA e : e[1] # n)
Keys(d) == [i \in DOMAIN d |-> d[i][1]]

\* ----------------------------------------------------------- run tasks
DoneSt == {"ok", "err", "cancelled"}
Done(r) == r.st \in DoneSt

\* ret: what the start_service call that created the task returned (line 50)
NewRun(n) == [svc |-> n, st |-> "created", cancel |-> FALSE, sub |-> FALSE,
              att |-> 0, s |-> 0, from |-> "-", ret |-> TRUE]

\* a finished task keeps only its outcome
Finish(r, how) == [r EXCEPT !.st = how, !.cancel = FALSE, !.sub = FALSE,
                            !.att = 0, !.s = 0, !.from = "-"]

NoEvt == [k |-> "none"]

\* identity of a caller of close(): negative for a shutdown_all of p, 0 for
\* a direct call, run tasks have their task id
Pid(p) == CASE p = "loop" -> -1 [] p = "api" -> -2 [] p = "remote" -> -3
            [] p = "local" -> -4
ProcIds == {Pid(p) : p \in Procs}

Closer(p, top) == IF top = "shutdown" THEN Pid(p) ELSE 0

IdleProc == [pc |-> "idle", top |-> "-", n |-> "-", t |-> 0, todo |-> <<>>,
             snap |-> {}]

\* --------------------------------------------------------- LicenseClient
SyncExp(d, t) ==
    LET exp == IF d.lic_exp # 0 THEN d.lic_exp
               ELSE IF d.token_exp # 0 THEN d.token_exp ELSE d.expires_at
    IN  IF exp <= 0 THEN [d EXCEPT !.valid = FALSE, !.expires_at = 0]
        ELSE [d EXCEPT !.expires_at = exp, !.valid = (exp > t)]

\* status() re-derives the flag before answering
StatusValid(d, t) == SyncExp(d, t).valid

\* expiry times a server answer can carry (0: none)
ExpVals == 0 .. (MaxNow + 1)

\* --------------------------------------------------------- TaskScheduler
\* The scheduler-side state an operation reads and writes.
Sched == [tasks |-> tasks, runs |-> runs, running |-> running, lsOwner |-> lsOwner]

\* start_service without the "svc is None" test: a task for any name
StartServiceAnyName(S, n) ==
    IF Has(S.tasks, n) /\ ~Done(S.runs[Get(S.tasks, n)])
    THEN [S |-> S, ret |-> TRUE, created |-> FALSE]
    ELSE [S |-> [S EXCEPT !.runs = Append(S.runs, NewRun(n)),
                          !.tasks = Put(S.tasks, n, Len(S.runs) + 1)],
          ret |-> TRUE, created |-> TRUE]

\* start_service without the "already running" test: every call restarts
StartServiceAlways(S, n) ==
    IF n \notin Names
    THEN [S |-> S, ret |-> FALSE, created |-> FALSE]
    ELSE [S |-> [S EXCEPT !.runs = Append(S.runs, NewRun(n)),
                          !.tasks = Put(S.tasks, n, Len(S.runs) + 1)],
          ret |-> TRUE, created |-> TRUE]

\* start_service(name, **kwargs): the whole call, it has no suspension point.
StartService(S, n) ==
    IF n \notin Names
    THEN [S |-> S, ret |-> FALSE, created |-> FALSE]
    ELSE IF Has(S.tasks, n) /\ ~Done(S.runs[Get(S.tasks, n)])
    THEN [S |-> S, ret |-> TRUE, created |-> FALSE]
    ELSE [S |-> [S EXCEPT !.runs = Append(S.runs, NewRun(n)),
                          !.tasks = Put(S.tasks, n, Len(S.runs) + 1)],
          ret |-> TRUE, created |-> TRUE]

\* svc.stop(): clears the flag; the Listener also cancels the sub-routines
\* held in self._tasks and empties the list.
SvcStop(S, n) ==
    LET S1 == [S EXCEPT !.running[n] = FALSE]
    IN  IF n = Listener /\ S.lsOwner # 0
        THEN [S1 EXCEPT !.lsOwner = 0,
                        !.runs[S.lsOwner].sub = ~Done(S.runs[S.lsOwner])]
        ELSE S1

\* t.cancel(): a request; it has no effect on a task that is done.
Cancel(S, t) ==
    IF Done(S.runs[t]) THEN S ELSE [S EXCEPT !.runs[t].cancel = TRUE]

\* "try: await t / except Exception: pass" followed by tasks.pop(name, None),
\* entered with t done: a cancelled task raises CancelledError, which the
\* except clause lets through; an error is swallowed; then the pop.
AwaitDone(S, n, t) ==
    IF S.runs[t].st = "cancelled"
    THEN [S |-> S, out |-> "raise", t |-> t]
    ELSE [S |-> [S EXCEPT !.tasks = Pop(S.tasks, n)], out |-> "ret", t |-> t]

\* stop_service that fires the cancellation and returns at once, without
\* awaiting the task and without the pop
AfterCancelNoAwait(S, n, t) == [S |-> S, out |-> "ret", t |-> t]

\* stop_service after t.cancel(): suspend on "await t" unless t is done.
AfterCancel(S, n, t) ==
    IF Done(S.runs[t]) THEN AwaitDone(S, n, t)
    ELSE [S |-> S, out |-> "await", t |-> t]

\* stop_service(name) from its call to its first suspension (or its end).
StopService(S, n) ==
    LET S1 == IF n \in Names THEN SvcStop(S, n) ELSE S
        t == Get(S1.tasks, n)
    IN  IF t = 0 THEN [S |-> S1, out |-> "ret", t |-> 0]
        ELSE AfterCancel(Cancel(S1, t), n, t)

\* The loop of shutdown_all over the names still to stop, up to the first
\* suspension: out is "close" when the loop is through, "raise" when a
\* stop_service raised, "await" when one is suspended on names[1].
RECURSIVE StopAll(_, _)
StopAll(S, names) ==
    IF names = <<>> THEN [S |-> S, out |-> "close", t |-> 0, todo |-> <<>>]
    ELSE LET r == StopService(S, Head(names))
         IN  IF r.out = "ret" THEN StopAll(r.S, Tail(names))
             ELSE [S |-> r.S, out |-> r.out, t |-> r.t, todo |-> names]

\* --------------------------------------------------------- BrowserManager
Browser == [ctx |-> ctx, pw |-> pw, lock |-> lock, sess |-> sess]

\* closes / stops: the calls of context.close() / pw.stop() that reached this
\* session from close(), i.e. from shutdown_all (counted up to 2)
\* probe: whether the context object offers is_closed() (getattr, line 75)
NewSess == [st |-> "driver", closes |-> 0, stops |-> 0, probe |-> TRUE]

Bump(c, who) == IF who < 0 /\ c < 2 THEN c + 1 ELSE c

\* _reset_context after "self._context = None". self._browser is None in
\* every state: start() is never called and the context returned by
\* launch_persistent_context has no browser object; so the next suspension
\* is pw.stop() when a driver is recorded.
ResetAfterCtx(b, who) ==
    IF b.pw # 0
    THEN [b |-> [b EXCEPT !.sess[b.pw].stops = Bump(@, who),
                          !.sess[b.pw].st = "stopped"],
          at |-> "rc_pw"]
    ELSE [b |-> b, at |-> "rc_done"]

\* _reset_context from its call to its first suspension: context.close()
\* when a context is recorded.
ResetEnter(b, who) ==
    IF b.ctx # 0
    THEN [b |-> [b EXCEPT !.sess[b.ctx].closes = Bump(@, who),
                          !.sess[b.ctx].st =
                              IF @ = "open" THEN "closed" ELSE @],
          at |-> "rc_ctx"]
    ELSE ResetAfterCtx(b, who)

\* The test of ensure_browser on the recorded context, when it does not
\* raise: "not is_closed()" where the context offers is_closed, else the
\* read of context.pages, which succeeds on a closed context too.
SeemsAlive(b) ==
    b.ctx # 0 /\ (b.sess[b.ctx].probe => b.sess[b.ctx].st = "open")

\* ensure_browser with the lock held: return when the recorded context is
\* alive, else reset and launch.
EnsureLocked(b, who) ==
    IF SeemsAlive(b)
    THEN [b |-> [b EXCEPT !.lock = 0], at |-> "ensured"]
    ELSE LET r == ResetEnter(b, who)
         IN  IF r.at = "rc_done" THEN [b |-> r.b, at |-> "pwstart"] ELSE r

\* ensure_browser with the lock held, a context recorded and its test
\* raising (is_closed() or the read of context.pages): "except Exception:
\* pass" leaves the if-block, and what follows it is _reset_context and the
\* launch.
EnsureCheckRaised(b, who) ==
    LET r == ResetEnter(b, who)
    IN  IF r.at = "rc_done" THEN [b |-> r.b, at |-> "pwstart"] ELSE r

\* ensure_browser from its call: wait for the lock when it is taken.
EnsureEnter(b, who) ==
    IF b.lock # 0 THEN [b |-> b, at |-> "lock"]
    ELSE EnsureLocked([b EXCEPT !.lock = who], who)

\* One pass of the loop of new_page, from ensure_browser to the suspension
\* on context.new_page() / page.goto(): gives the position of the run task.
NewPagePass(b, who, att) ==
    LET e == EnsureEnter(b, who)
    IN  IF e.at = "ensured"
        THEN [b |-> e.b, st |-> "page", att |-> att, s |-> e.b.ctx, from |-> "-"]
        ELSE [b |-> e.b, st |-> e.at, att |-> att, s |-> 0, from |-> "eb"]

\* new_page with a loop of three passes
NewPageRetryAgain(b, who, att) ==
    IF att < 3 THEN NewPagePass(b, who, att + 1)
    ELSE [b |-> b, st |-> "err", att |-> 0, s |-> 0, from |-> "-"]

\* new_page after its "await self._reset_context()": second pass, or the
\* RuntimeError after the second failure.
NewPageRetry(b, who, att) ==
    IF att < 2 THEN NewPagePass(b, who, att + 1)
    ELSE [b |-> b, st |-> "err", att |-> 0, s |-> 0, from |-> "-"]

\* new_page on TargetClosedError: reset, then NewPageRetry.
NewPageFailed(b, who, att) ==
    LET r == ResetEnter(b, who)
    IN  IF r.at = "rc_done" THEN NewPageRetry(r.b, who, att)
        ELSE [b |-> r.b, st |-> r.at, att |-> att, s |-> 0, from |-> "np"]

\* where _reset_context returns to, for a run task
AfterReset(b, who, r) ==
    IF r.from = "eb"
    THEN [b |-> b, st |-> "pwstart", att |-> r.att, s |-> 0, from |-> "-"]
    ELSE NewPageRetry(b, who, r.att)

\* ------------------------------------------------------------ the actions
SetSched(S) ==
    /\ tasks' = S.tasks /\ runs' = S.runs
    /\ running' = S.running /\ lsOwner' = S.lsOwner

SetBrowser(b) ==
    /\ ctx' = b.ctx /\ pw' = b.pw /\ lock' = b.lock /\ sess' = b.sess

schedVars == <<tasks, runs, running, lsOwner>>
browserVars == <<ctx, pw, lock, sess>>

\* a task the event loop will not run again
EndPc(p) == IF p = "api" THEN "idle" ELSE "dead"

\* The runs a shutdown_all finds recorded and not terminated when invoked.
ActiveHandles(S) ==
    {S.tasks[i][2] : i \in {j \in DOMAIN S.tasks : ~Done(S.runs[S.tasks[j][2]])}}

SdEvt(p, S, snap, raised, closed) ==
    [k |-> "shutdown", by |-> p, raised |-> raised, closed |-> closed,
     allDone |-> \A t \in snap : Done(S.runs[t])]

\* shutdown_all from the result r of its stop loop onwards, for caller p:
\* the new position of p, the browser state and the event of the step.
ShutdownStep(p, r, b, snap) ==
    IF r.out = "raise"
    THEN [pr |-> [IdleProc EXCEPT !.pc = EndPc(p)], b |-> b,
          evt |-> SdEvt(p, r.S, snap, TRUE, FALSE)]
    ELSE IF r.out = "await"
    THEN [pr |-> [pc |-> "await_t", top |-> "shutdown", n |-> Head(r.todo),
                  t |-> r.t, todo |-> r.todo, snap |-> snap],
          b |-> b, evt |-> NoEvt]
    ELSE LET c == ResetEnter(b, Pid(p))
         IN  IF c.at = "rc_done"
             THEN [pr |-> IdleProc, b |-> c.b,
                   evt |-> SdEvt(p, r.S, snap, FALSE, TRUE)]
             ELSE [pr |-> [IdleProc EXCEPT !.pc = c.at, !.top = "shutdown",
                                           !.snap = snap],
                   b |-> c.b, evt |-> NoEvt]

\* shutdown_all() invoked by p on scheduler state S.
Shutdown(p, S) ==
    /\ LET r == StopAll(S, Keys(S.tasks))
           x == ShutdownStep(p, r, Browser, ActiveHandles(S))
       IN  /\ SetSched(r.S)
           /\ SetBrowser(x.b)
           /\ proc' = [proc EXCEPT ![p] = x.pr]
           /\ evt' = x.evt

\* POST /api/xhs/{collect,comment,watch}/start
ApiStart(n) ==
    /\ LET d == SyncExp(data, now)
           r == StartService(Sched, n)
       IN  /\ data' = d
           /\ IF d.valid
              THEN /\ Len(r.S.runs) <= MaxTasks
                   /\ SetSched(r.S)
                   /\ evt' = [k |-> "start", n |-> n, ret |-> r.ret,
                              created |-> r.created,
                              active |-> (Has(tasks, n) /\ ~Done(runs[Get(tasks, n)])),
                              prev |-> Get(tasks, n), nruns |-> Len(runs),
                              afterStop |-> (evt.k = "stop" /\ evt.n = n
                                             /\ ~evt.raised),
                              stopHad |-> (evt.k = "stop" /\ evt.n = n
                                           /\ ~evt.raised /\ evt.had)]
              ELSE /\ UNCHANGED schedVars
                   /\ evt' = NoEvt
    /\ obs' = NoEvt
    /\ UNCHANGED <<proc, browserVars, now, polled, pageVars, svcVars>>

\* start_service(n) called on the scheduler with a name that is not a key
\* of services (S: the scheduler state the call found)
StartUnregistered(n) ==
    /\ LET r == StartService(Sched, n)
       IN  /\ Len(r.S.runs) <= MaxTasks
           /\ SetSched(r.S)
           /\ evt' = [k |-> "start_other", n |-> n, ret |-> r.ret, S |-> Sched]
    /\ obs' = NoEvt
    /\ UNCHANGED <<proc, browserVars, data, now, polled, pageVars, svcVars>>

\* stop_service(n) called on the scheduler's public surface
ApiStop(n) ==
    /\ proc["api"].pc = "idle"
    /\ LET r == StopService(Sched, n)
       IN  /\ SetSched(r.S)
           /\ IF r.out = "await"
              THEN /\ proc' = [proc EXCEPT !["api"] =
                          [pc |-> "await_t", top |-> "stop", n |-> n, t |-> r.t,
                           todo |-> <<>>, snap |-> {}]]
                   /\ evt' = NoEvt
              ELSE /\ proc' = proc
                   /\ evt' = [k |-> "stop", n |-> n, raised |-> (r.out = "raise"),
                              had |-> (r.t # 0)]
    /\ obs' = NoEvt
    /\ UNCHANGED <<browserVars, data, now, polled, pageVars, svcVars>>

\* POST /api/app/stop_all
ApiStopAll ==
    /\ proc["api"].pc = "idle"
    /\ Shutdown("api", Sched)
    /\ obs' = NoEvt
    /\ UNCHANGED <<data, now, polled, pageVars, svcVars>>

\* run_loop that reacts to the change of the flag only: no shutdown_all
\* when the previous poll already saw the entitlement invalid
LoopPollOnce ==
    /\ proc["loop"].pc = "idle"
    /\ LET d == SyncExp(data, now)
       IN  /\ data' = d
           /\ polled' = IF d.valid THEN "valid" ELSE "invalid"
           /\ obs' = [k |-> "poll", valid |-> d.valid, prev |-> polled]
           /\ IF ~d.valid /\ polled # "invalid" THEN Shutdown("loop", Sched)
              ELSE /\ evt' = NoEvt
                   /\ UNCHANGED <<schedVars, browserVars, proc>>
    /\ UNCHANGED <<now, pageVars, svcVars>>

\* run_loop: one wake-up from asyncio.sleep(1)
LoopPoll ==
    /\ proc["loop"].pc = "idle"
    /\ LET d == SyncExp(data, now)
       IN  /\ data' = d
           /\ polled' = IF d.valid THEN "valid" ELSE "invalid"
           /\ obs' = [k |-> "poll", valid |-> d.valid, prev |-> polled]
           /\ IF ~d.valid THEN Shutdown("loop", Sched)
              ELSE /\ evt' = NoEvt
                   /\ UNCHANGED <<schedVars, browserVars, proc>>
    /\ UNCHANGED <<now, pageVars, svcVars>>

\* shutdown_if_expired(), called with entitlement data d
ShutdownIfExpired(p, d) ==
    /\ data' = SyncExp(d, now)
    /\ IF ~StatusValid(d, now) THEN Shutdown(p, Sched)
       ELSE /\ evt' = NoEvt
            /\ proc' = [proc EXCEPT ![p] = IdleProc]
            /\ UNCHANGED <<schedVars, browserVars>>

\* periodic_local_check(60, shutdown_if_expired): one wake-up
LocalCheck ==
    /\ proc["local"].pc = "idle"
    /\ LET d == SyncExp(data, now)
       IN  /\ obs' = [k |-> "local", valid |-> d.valid]
           /\ IF ~d.valid THEN ShutdownIfExpired("local", d)
              ELSE /\ data' = d
                   /\ evt' = NoEvt
                   /\ UNCHANGED <<schedVars, browserVars, proc>>
    /\ UNCHANGED <<now, polled, pageVars, svcVars>>

\* periodic_remote_check: wake-up with a token, the verify request is sent
RemoteWake ==
    /\ proc["remote"].pc = "idle"
    /\ data.token
    /\ proc' = [proc EXCEPT !["remote"].pc = "verify"]
    /\ evt' = NoEvt /\ obs' = NoEvt
    /\ UNCHANGED <<schedVars, browserVars, data, now, polled, pageVars, svcVars>>

\* periodic_remote_check: the server answers with a status other than "ok"
RemoteRefused ==
    /\ proc["remote"].pc = "verify"
    /\ LET d == [data EXCEPT !.valid = FALSE]
       IN  /\ ShutdownIfExpired("remote", d)
           /\ obs' = [k |-> "refused", future |-> (SyncExp(d, now).expires_at > now)]
    /\ UNCHANGED <<now, polled, pageVars, svcVars>>

\* periodic_remote_check: the server answers "ok" (e: the expiry it reports,
\* 0 for none), or the request fails (e = -1)
RemoteOk(e) ==
    /\ proc["remote"].pc = "verify"
    /\ data' = IF e > 0
               THEN [data EXCEPT !.lic_exp = e, !.expires_at = e, !.valid = (e > now)]
               ELSE data
    /\ proc' = [proc EXCEPT !["remote"] = IdleProc]
    /\ evt' = NoEvt /\ obs' = NoEvt
    /\ UNCHANGED <<schedVars, browserVars, now, polled, pageVars, svcVars>>

\* activate(key) answered "ok" with a token flag and expiries (0: absent)
ActivateOk(tok, texp, lexp) ==
    /\ LET exp0 == IF lexp # 0 THEN lexp ELSE texp
           exp == IF exp0 <= 0 THEN now + OfflineTtl ELSE exp0
       IN  data' = [valid |-> TRUE, expires_at |-> exp, token |-> tok,
                    token_exp |-> texp, lic_exp |-> lexp]
    /\ evt' = NoEvt /\ obs' = NoEvt
    /\ UNCHANGED <<schedVars, browserVars, proc, now, polled, pageVars, svcVars>>

\* activate(key) when the request fails: offline grace
ActivateOffline ==
    /\ data' = [valid |-> TRUE, expires_at |-> now + OfflineTtl, token |-> FALSE,
                token_exp |-> now + OfflineTtl, lic_exp |-> 0]
    /\ evt' = NoEvt /\ obs' = NoEvt
    /\ UNCHANGED <<schedVars, browserVars, proc, now, polled, pageVars, svcVars>>

\* the clock advances
Tick ==
    /\ now < MaxNow
    /\ now' = now + 1
    /\ evt' = NoEvt /\ obs' = NoEvt
    /\ UNCHANGED <<schedVars, browserVars, proc, data, polled, pageVars, svcVars>>

\* stop_service resumes from "await t": t is done
ProcResume(p) ==
    /\ proc[p].pc = "await_t"
    /\ Done(runs[proc[p].t])
    /\ LET a == AwaitDone(Sched, proc[p].n, proc[p].t)
       IN  IF proc[p].top = "stop"
           THEN /\ SetSched(a.S)
                /\ proc' = [proc EXCEPT ![p] = IdleProc]
                /\ evt' = [k |-> "stop", n |-> proc[p].n,
                           raised |-> (a.out = "raise"), had |-> TRUE]
                /\ UNCHANGED browserVars
           ELSE LET r == IF a.out = "raise"
                         THEN [S |-> a.S, out |-> "raise", t |-> 0, todo |-> <<>>]
                         ELSE StopAll(a.S, Tail(proc[p].todo))
                    x == ShutdownStep(p, r, Browser, proc[p].snap)
                IN  /\ SetSched(r.S)
                    /\ SetBrowser(x.b)
                    /\ proc' = [proc EXCEPT ![p] = x.pr]
                    /\ evt' = x.evt
    /\ obs' = NoEvt
    /\ UNCHANGED <<data, now, polled, pageVars, svcVars>>

\* close(): "await self._context.close()" is through, self._context = None
ProcCtxClosed(p) ==
    /\ proc[p].pc = "rc_ctx"
    /\ LET c == ResetAfterCtx([Browser EXCEPT !.ctx = 0], Closer(p, proc[p].top))
       IN  /\ SetBrowser(c.b)
           /\ IF c.at = "rc_done"
              THEN /\ proc' = [proc EXCEPT ![p] = IdleProc]
                   /\ evt' = IF proc[p].top = "shutdown"
                             THEN SdEvt(p, Sched, proc[p].snap, FALSE, TRUE)
                             ELSE NoEvt
              ELSE /\ proc' = [proc EXCEPT ![p].pc = c.at]
                   /\ evt' = NoEvt
    /\ obs' = NoEvt
    /\ UNCHANGED <<schedVars, data, now, polled, pageVars, svcVars>>

\* close(): "await self._pw.stop()" is through, self._pw = None
ProcPwStopped(p) ==
    /\ proc[p].pc = "rc_pw"
    /\ pw' = 0
    /\ proc' = [proc EXCEPT ![p] = IdleProc]
    /\ evt' = IF proc[p].top = "shutdown"
              THEN SdEvt(p, Sched, proc[p].snap, FALSE, TRUE)
              ELSE NoEvt
    /\ obs' = NoEvt
    /\ UNCHANGED <<schedVars, ctx, lock, sess, data, now, polled, pageVars, svcVars>>

\* close() called on the BrowserManager by p, outside a shutdown_all
CloseCall(p) ==
    /\ proc[p].pc = "idle"
    /\ LET c == ResetEnter(Browser, Closer(p, "close"))
       IN  /\ SetBrowser(c.b)
           /\ proc' = [proc EXCEPT ![p] =
                  IF c.at = "rc_done" THEN IdleProc
                  ELSE [IdleProc EXCEPT !.pc = c.at, !.top = "close"]]
    /\ evt' = NoEvt /\ obs' = NoEvt
    /\ UNCHANGED <<schedVars, data, now, polled, pageVars, svcVars>>

\* the browser window of the recorded session is closed from outside: the
\* event new_page meets as TargetClosedError
ExternalClose ==
    /\ ctx # 0 /\ sess[ctx].st = "open"
    /\ sess' = [sess EXCEPT ![ctx].st = "closed"]
    /\ evt' = NoEvt /\ obs' = NoEvt
    /\ UNCHANGED <<schedVars, proc, ctx, pw, lock, data, now, polled, pageVars, svcVars>>

\* ------------------------------------------------------ service run tasks
Steppable(i) == ~Done(runs[i]) /\ ~runs[i].cancel /\ ~runs[i].sub

\* position of run task i after a new_page step with outcome x
Placed(i, x) ==
    IF x.st = "err" THEN Finish(runs[i], "err")
    ELSE [runs[i] EXCEPT !.st = x.st, !.att = x.att, !.s = x.s, !.from = x.from]

quiet == /\ evt' = NoEvt /\ obs' = NoEvt
         /\ UNCHANGED <<tasks, proc, data, now, polled, pageVars, svcVars>>

\* svc.run(**kwargs) starts and finds nothing to do: no keywords, no targets
\* or max_total = 0, no watch items
RunEmpty(i) ==
    /\ runs[i].st = "created" /\ Steppable(i)
    /\ runs' = [runs EXCEPT ![i] = Finish(@, "ok")]
    /\ running' = [running EXCEPT ![runs[i].svc] = FALSE]
    /\ lsOwner' = IF runs[i].svc = Listener THEN 0 ELSE lsOwner
    /\ quiet /\ UNCHANGED browserVars

\* svc.run(**kwargs) starts: the flag is set; the Collector and the Commenter
\* call new_page for their first target (wait = FALSE) or the Commenter
\* sleeps out min_interval first; the Listener creates its sub-routine and
\* waits in gather (wait = TRUE)
RunStart(i, wait) ==
    /\ runs[i].st = "created" /\ Steppable(i)
    /\ wait => runs[i].svc # Collector
    /\ ~wait => runs[i].svc # Listener
    /\ running' = [running EXCEPT ![runs[i].svc] = TRUE]
    /\ lsOwner' = IF runs[i].svc = Listener THEN i ELSE lsOwner
    /\ IF wait
       THEN /\ runs' = [runs EXCEPT ![i].st = "body"]
            /\ UNCHANGED browserVars
       ELSE LET x == NewPagePass(Browser, i, 1)
            IN  /\ runs' = [runs EXCEPT ![i] = Placed(i, x)]
                /\ SetBrowser(x.b)
    /\ quiet

\* the run goes on to its next target (the Listener: its sub-routine takes
\* its watch page or a reply page): new_page is called
RunNext(i) ==
    /\ runs[i].st = "body" /\ Steppable(i)
    /\ runs[i].svc = Collector => running[Collector]
    /\ LET x == NewPagePass(Browser, i, 1)
       IN  /\ runs' = [runs EXCEPT ![i] = Placed(i, x)]
           /\ SetBrowser(x.b)
    /\ quiet /\ UNCHANGED <<running, lsOwner>>

\* as RunNext, the lock being free and the test of ensure_browser on the
\* recorded context raising
RunNextCheckRaises(i) ==
    /\ runs[i].st = "body" /\ Steppable(i)
    /\ runs[i].svc = Collector => running[Collector]
    /\ lock = 0 /\ ctx # 0
    /\ LET e == EnsureCheckRaised([Browser EXCEPT !.lock = i], i)
       IN  /\ runs' = [runs EXCEPT ![i] =
                  [@ EXCEPT !.st = e.at, !.att = 1, !.s = 0, !.from = "eb"]]
           /\ SetBrowser(e.b)
    /\ evt' = NoEvt
    /\ obs' = [k |-> "chk_raised", ctx |-> ctx, pw |-> pw,
               open |-> (sess[ctx].st = "open")]
    /\ UNCHANGED <<tasks, running, lsOwner, proc, data, now, polled, pageVars, svcVars>>

\* the run leaves its loop and ends: self._running = False
RunExit(i) ==
    /\ runs[i].st = "body" /\ Steppable(i)
    /\ runs[i].svc = Listener => ~running[Listener]
    /\ runs' = [runs EXCEPT ![i] = Finish(@, "ok")]
    /\ running' = [running EXCEPT ![runs[i].svc] = FALSE]
    /\ quiet /\ UNCHANGED <<lsOwner, browserVars>>

\* an exception other than TargetClosedError escapes the run: page.goto in
\* new_page, or a page operation the service does not guard (the Commenter
\* guards its whole body)
RunFail(i) ==
    /\ Steppable(i)
    /\ \/ runs[i].st = "page"
       \/ runs[i].st = "body" /\ runs[i].svc # Commenter
    /\ runs' = [runs EXCEPT ![i] = Finish(@, "err")]
    /\ quiet /\ UNCHANGED <<running, lsOwner, browserVars>>

\* ensure_browser: the lock is obtained
LockAcquired(i) ==
    /\ runs[i].st = "lock" /\ Steppable(i)
    /\ lock = 0
    /\ LET e == EnsureLocked([Browser EXCEPT !.lock = i], i)
           x == IF e.at = "ensured"
                THEN [b |-> e.b, st |-> "page", att |-> runs[i].att,
                      s |-> e.b.ctx, from |-> "-"]
                ELSE [b |-> e.b, st |-> e.at, att |-> runs[i].att, s |-> 0,
                      from |-> "eb"]
       IN  /\ runs' = [runs EXCEPT ![i] = Placed(i, x)]
           /\ SetBrowser(x.b)
    /\ quiet /\ UNCHANGED <<running, lsOwner>>

\* _reset_context: context.close() is through, self._context = None
ResetCtxDone(i) ==
    /\ runs[i].st = "rc_ctx" /\ Steppable(i)
    /\ LET c == ResetAfterCtx([Browser EXCEPT !.ctx = 0], i)
           x == IF c.at = "rc_done" THEN AfterReset(c.b, i, runs[i])
                ELSE [b |-> c.b, st |-> c.at, att |-> runs[i].att, s |-> 0,
                      from |-> runs[i].from]
       IN  /\ runs' = [runs EXCEPT ![i] = Placed(i, x)]
           /\ SetBrowser(x.b)
    /\ quiet /\ UNCHANGED <<running, lsOwner>>

\* _reset_context: pw.stop() is through, self._pw = None
ResetPwDone(i) ==
    /\ runs[i].st = "rc_pw" /\ Steppable(i)
    /\ LET x == AfterReset([Browser EXCEPT !.pw = 0], i, runs[i])
       IN  /\ runs' = [runs EXCEPT ![i] = Placed(i, x)]
           /\ SetBrowser(x.b)
    /\ quiet /\ UNCHANGED <<running, lsOwner>>

\* ensure_browser: async_playwright().start() is through, the launch is sent
\* (max: the number of launches the specification follows)
PwStarted(i, max) ==
    /\ runs[i].st = "pwstart" /\ Steppable(i)
    /\ Len(sess) < max
    /\ \E h \in (IF sess = <<>> THEN BOOLEAN ELSE {sess[1].probe}) :
           sess' = Append(sess, [NewSess EXCEPT !.probe = h])
    /\ pw' = Len(sess) + 1
    /\ runs' = [runs EXCEPT ![i].st = "launch", ![i].s = Len(sess) + 1]
    /\ quiet /\ UNCHANGED <<running, lsOwner, ctx, lock>>

\* ensure_browser: launch_persistent_context returns the context (the lock
\* is released, new_page opens its page) or raises
Launched(i, ok) ==
    /\ runs[i].st = "launch" /\ Steppable(i)
    /\ ok => sess[runs[i].s].st = "driver"
    /\ IF ok
       THEN /\ sess' = [sess EXCEPT ![runs[i].s].st = "open"]
            /\ ctx' = runs[i].s
            /\ runs' = [runs EXCEPT ![i].st = "page"]
       ELSE /\ runs' = [runs EXCEPT ![i] = Finish(@, "err")]
            /\ UNCHANGED <<sess, ctx>>
    /\ lock' = 0
    /\ quiet /\ UNCHANGED <<running, lsOwner, pw>>

\* new_page: context.new_page() and page.goto() are through (the page is
\* handed to the run) or raise TargetClosedError (reset, second pass)
PageOpened(i) ==
    /\ runs[i].st = "page" /\ Steppable(i)
    /\ IF sess[runs[i].s].st = "open"
       THEN /\ runs' = [runs EXCEPT ![i].st = "body", ![i].att = 0, ![i].s = 0]
            /\ UNCHANGED browserVars
       ELSE LET x == NewPageFailed(Browser, i, runs[i].att)
            IN  /\ runs' = [runs EXCEPT ![i] = Placed(i, x)]
                /\ SetBrowser(x.b)
    /\ quiet /\ UNCHANGED <<running, lsOwner>>

\* The cancellation requested by t.cancel() (or, for the Listener, by stop()
\* on its sub-routines) reaches the task at its suspension point: the lock
\* is released by "async with"; Listener.run, once started, absorbs it in
\* "except asyncio.CancelledError" and ends normally; every other run ends
\* cancelled.
CancelDelivered(i) ==
    /\ ~Done(runs[i])
    /\ runs[i].cancel \/ runs[i].sub
    /\ lock' = IF lock = i THEN 0 ELSE lock
    /\ IF runs[i].svc = Listener /\ runs[i].st # "created"
       THEN /\ runs' = [runs EXCEPT ![i] = Finish(@, "ok")]
            /\ running' = [running EXCEPT ![Listener] = FALSE]
       ELSE /\ runs' = [runs EXCEPT ![i] = Finish(@, "cancelled")]
            /\ UNCHANGED running
    /\ quiet /\ UNCHANGED <<lsOwner, ctx, pw, sess>>

\* ------------------------------------------- the borrowers of pages
\* A Collector run, a Commenter run and a polling sub-routine of a Listener
\* run, each over MaxItems keywords / targets / replies, on a session that
\* ensure_browser finds alive (it returns without suspension). A behaviour
\* follows two of them side by side.
ColRun == "collect"
ComRun == "comment"
MonRun == "watch"
Borrowers == {ColRun, ComRun, MonRun}
Pairs == {Borrowers \ {x} : x \in Borrowers}

Ended == {"ok", "err", "cancelled"}

\* rep: inside _reply_to_comment; page / rp: the page new_page returned to
\* the borrower / to its reply flow, until the borrower calls close() on it;
\* np: the page new_page is working on; k: the item at hand; att: the pass of
\* new_page; cancel: 1 requested, 2 delivered; fail: an exception is on its
\* way out of the borrower
NewBorrower == [pc |-> "idle", rep |-> FALSE, page |-> 0, rp |-> 0, np |-> 0,
                k |-> 0, att |-> 0, cancel |-> 0, fail |-> FALSE]

\* by: the run that navigated the page last or, once closed, closed it
NewPage == [open |-> TRUE, by |-> "-"]

\* pages[0] of "[p for p in context.pages if not p.is_closed()]" (0: empty)
FirstOpen(P) ==
    IF \E p \in DOMAIN P : P[p].open
    THEN CHOOSE p \in DOMAIN P :
             P[p].open /\ \A q \in DOMAIN P : P[q].open => p <= q
    ELSE 0

\* new_page that opens a page of its own at every call
AcquireFresh(P, b) == [b EXCEPT !.pc = "opening", !.np = 0, !.att = 1]

\* new_page from its call to its first suspension: bring_to_front() on the
\* first open page, or context.new_page() when no page is open
Acquire(P, b) ==
    IF FirstOpen(P) # 0
    THEN [b EXCEPT !.pc = "front", !.np = FirstOpen(P), !.att = 1]
    ELSE [b EXCEPT !.pc = "opening", !.np = 0, !.att = 1]

\* new_page returns b.np; the borrower enters its try block and calls
\* page.goto(url)
Returned(b) ==
    IF b.rep THEN [b EXCEPT !.rp = b.np, !.np = 0, !.att = 0, !.pc = "goto"]
    ELSE [b EXCEPT !.page = b.np, !.np = 0, !.att = 0, !.pc = "goto"]

\* "finally: await page.close()" of borrower t, up to the suspension
Release(P, b, t) ==
    LET p == IF b.rep THEN b.rp ELSE b.page
    IN  [P |-> [P EXCEPT ![p].by = IF P[p].open THEN t ELSE @,
                         ![p].open = FALSE],
         b |-> [b EXCEPT !.pc = "closing", !.rp = 0,
                         !.page = IF b.rep THEN @ ELSE 0]]

\* a borrower whose failure path has no finally clause
RaiseNoFinally(P, b, t) ==
    [P |-> P, b |-> [b EXCEPT !.pc = "err", !.fail = TRUE]]

\* an exception raised inside the try block of borrower t: the Commenter
\* catches it ("except Exception"), _reply_to_comment lets it out to
\* _monitor_item, which catches it; _collect_for_keyword and the goto of
\* _monitor_item let it out of the run; all of them close the page first
Raise(P, b, t) ==
    Release(P, [b EXCEPT !.fail = (t # ComRun /\ ~b.rep)], t)

\* an exception leaves new_page: "page = await new_page()" stands before the
\* try blocks; _monitor_item catches what leaves _reply_to_comment
AcquireRaised(b) ==
    IF b.rep THEN [b EXCEPT !.rep = FALSE, !.np = 0, !.att = 0, !.pc = "use"]
    ELSE [b EXCEPT !.np = 0, !.att = 0, !.pc = "err"]

\* the page.close() of the finally clause has returned
AfterClose(P, b, t) ==
    IF b.rep
    THEN IF b.cancel = 2 THEN Release(P, [b EXCEPT !.rep = FALSE], t)
         ELSE [P |-> P, b |-> [b EXCEPT !.rep = FALSE, !.pc = "use"]]
    ELSE IF b.cancel = 2 THEN [P |-> P, b |-> [b EXCEPT !.pc = "cancelled"]]
    ELSE IF b.fail THEN [P |-> P, b |-> [b EXCEPT !.pc = "err"]]
    ELSE IF t = ComRun THEN [P |-> P, b |-> [b EXCEPT !.pc = "sleep"]]
    ELSE IF t = ColRun /\ b.k < MaxItems
    THEN [P |-> P, b |-> Acquire(P, [b EXCEPT !.k = @ + 1])]
    ELSE [P |-> P, b |-> [b EXCEPT !.pc = "ok"]]

\* CancelledError is thrown into borrower t at its suspension point
Deliver(P, b, t) ==
    LET d == [b EXCEPT !.cancel = 2, !.np = 0, !.att = 0]
        gone == [P |-> P, b |-> [d EXCEPT !.pc = "cancelled"]]
    IN  IF b.pc \in {"goto", "use"} THEN Release(P, d, t)
        ELSE IF b.pc = "sleep" THEN gone
        ELSE IF b.rep THEN Release(P, [d EXCEPT !.rep = FALSE], t)
        ELSE gone

\* what a new_page call found and chose, for the step in which it was made
AcquireEvt(t, P, b) ==
    [k |-> "acquire", by |-> t, first |-> FirstOpen(P), got |-> b.np,
     opens |-> (b.pc = "opening")]

\* the page borrower t gave up in the step that leads to b (0: none)
GivenUp(t, b) ==
    IF thr[t].rp # 0 /\ b.rp = 0 THEN thr[t].rp
    ELSE IF thr[t].page # 0 /\ b.page = 0 THEN thr[t].page ELSE 0

\* a step of borrower t to pages P and position b
BorrowerStep(t, P, b) ==
    /\ pgs' = P
    /\ thr' = [thr EXCEPT ![t] = b]
    /\ evt' = IF b.pc \in {"front", "opening"} /\ thr[t].pc \notin {"front", "opening", "home"}
              THEN AcquireEvt(t, pgs, b)
              ELSE IF GivenUp(t, b) # 0
              THEN [k |-> "release", by |-> t, page |-> GivenUp(t, b)]
              ELSE NoEvt
    /\ obs' = NoEvt
    /\ UNCHANGED <<schedVars, browserVars, proc, data, now, polled, svcVars>>

Going(t) == thr[t].pc \notin Ended \cup {"idle"} /\ thr[t].cancel # 1

\* the run (the sub-routine) starts and calls new_page for its first item
BorrowerStart(t) ==
    /\ thr[t].pc = "idle"
    /\ BorrowerStep(t, pgs, Acquire(pgs, [thr[t] EXCEPT !.k = 1]))

\* new_page: bring_to_front() is through (an error of it is swallowed)
Fronted(t) ==
    /\ thr[t].pc = "front" /\ Going(t)
    /\ BorrowerStep(t, pgs, Returned(thr[t]))

\* new_page: context.new_page() is through, page.goto(explore) is sent
PageCreated(t) ==
    /\ thr[t].pc = "opening" /\ Going(t)
    /\ Len(pgs) < MaxPages
    /\ BorrowerStep(t, Append(pgs, NewPage),
                    [thr[t] EXCEPT !.pc = "home", !.np = Len(pgs) + 1])

\* new_page: page.goto(explore) is through and the page is returned; or it
\* raised TargetClosedError because the page was closed under it: the
\* session is reset (all its pages are gone) and the second pass opens a
\* page in the session launched anew, or RuntimeError is raised
HomeDone(t) ==
    /\ thr[t].pc = "home" /\ Going(t)
    /\ IF pgs[thr[t].np].open
       THEN BorrowerStep(t, pgs, Returned(thr[t]))
       ELSE BorrowerStep(t, [q \in DOMAIN pgs |-> [pgs[q] EXCEPT !.open = FALSE]],
                         IF thr[t].att < 2
                         THEN [thr[t] EXCEPT !.pc = "opening", !.np = 0, !.att = 2]
                         ELSE AcquireRaised(thr[t]))

\* page.goto(url) of the borrower is through
GotoDone(t) ==
    /\ thr[t].pc = "goto" /\ Going(t)
    /\ LET q == IF thr[t].rep THEN thr[t].rp ELSE thr[t].page
       IN  /\ pgs[q].open
           /\ BorrowerStep(t, [pgs EXCEPT ![q].by = t], [thr[t] EXCEPT !.pc = "use"])

\* a page operation inside the try block raises (a timeout, a closed page);
\* the polling loop of _monitor_item catches it and polls again
BorrowerFail(t) ==
    /\ thr[t].pc \in {"goto", "use"} /\ Going(t)
    /\ ~(t = MonRun /\ ~thr[t].rep /\ thr[t].pc = "use")
    /\ LET r == Raise(pgs, thr[t], t) IN BorrowerStep(t, r.P, r.b)

\* the work on the item is done: the finally clause closes the page
UseDone(t) ==
    /\ thr[t].pc = "use" /\ Going(t)
    /\ t = MonRun => thr[t].rep
    /\ LET r == Release(pgs, thr[t], t) IN BorrowerStep(t, r.P, r.b)

\* _monitor_item finds a comment matching a rule: _reply_to_comment calls
\* new_page
WatchMatch(t) ==
    /\ t = MonRun /\ thr[t].pc = "use" /\ ~thr[t].rep /\ Going(t)
    /\ thr[t].k < MaxItems
    /\ BorrowerStep(t, pgs, Acquire(pgs, [thr[t] EXCEPT !.rep = TRUE, !.k = @ + 1]))

\* page.close() of the finally clause is through
Closed(t) ==
    /\ thr[t].pc = "closing" /\ Going(t)
    /\ LET r == AfterClose(pgs, thr[t], t) IN BorrowerStep(t, r.P, r.b)

\* the Commenter has slept out its interval: next target, or the end
Slept(t) ==
    /\ thr[t].pc = "sleep" /\ Going(t)
    /\ BorrowerStep(t, pgs,
                    IF thr[t].k < MaxItems
                    THEN Acquire(pgs, [thr[t] EXCEPT !.k = @ + 1])
                    ELSE [thr[t] EXCEPT !.pc = "ok"])

\* stop_service: svc.stop() and t.cancel() on the run of borrower t
BorrowerCancel(t) ==
    /\ thr[t].pc \notin Ended \cup {"idle"} /\ thr[t].cancel = 0
    /\ BorrowerStep(t, pgs, [thr[t] EXCEPT !.cancel = 1])

\* the cancellation reaches the borrower
BorrowerCancelled(t) ==
    /\ thr[t].pc \notin Ended /\ thr[t].cancel = 1
    /\ LET r == Deliver(pgs, thr[t], t) IN BorrowerStep(t, r.P, r.b)

\* the session launched, the entitlement granted, two runs not yet started; the
\* page a persistent context starts with is still open, or no page is
InitPages ==
    /\ tasks = <<>> /\ runs = <<>>
    /\ running = [n \in Names |-> FALSE]
    /\ lsOwner = 0
    /\ proc = [p \in Procs |-> IdleProc]
    /\ ctx = 1 /\ pw = 1 /\ lock = 0
    /\ \E h \in BOOLEAN : sess = <<[NewSess EXCEPT !.st = "open", !.probe = h]>>
    /\ data = [valid |-> TRUE, expires_at |-> 1 + OfflineTtl, token |-> FALSE,
               token_exp |-> 1 + OfflineTtl, lic_exp |-> 0]
    /\ now = 1
    /\ polled = "none"
    /\ evt = NoEvt /\ obs = NoEvt
    /\ pgs \in {<<>>, <<NewPage>>}
    /\ \E A \in Pairs : thr = [t \in A |-> NewBorrower]
    /\ lis = <<>> /\ mon = <<>> /\ com = <<>> /\ db = <<>> /\ fn = <<>>
    /\ col = <<>>

NextPages ==
    \/ \E t \in DOMAIN thr : BorrowerStart(t)
    \/ \E t \in DOMAIN thr : Fronted(t)
    \/ \E t \in DOMAIN thr : PageCreated(t)
    \/ \E t \in DOMAIN thr : HomeDone(t)
    \/ \E t \in DOMAIN thr : GotoDone(t)
    \/ \E t \in DOMAIN thr : BorrowerFail(t)
    \/ \E t \in DOMAIN thr : UseDone(t)
    \/ \E t \in DOMAIN thr : WatchMatch(t)
    \/ \E t \in DOMAIN thr : Closed(t)
    \/ \E t \in DOMAIN thr : Slept(t)
    \/ \E t \in DOMAIN thr : BorrowerCancel(t)
    \/ \E t \in DOMAIN thr : BorrowerCancelled(t)

SpecPages == InitPages /\ [][NextPages]_vars

\* ------------------------------------------------------- specification
Init ==
    /\ tasks = <<>> /\ runs = <<>>
    /\ running = [n \in Names |-> FALSE]
    /\ lsOwner = 0
    /\ proc = [p \in Procs |-> IdleProc]
    /\ ctx = 0 /\ pw = 0 /\ lock = 0 /\ sess = <<>>
    /\ data = [valid |-> FALSE, expires_at |-> 0, token |-> FALSE,
               token_exp |-> 0, lic_exp |-> 0]
    /\ now = 1
    /\ polled = "none"
    /\ evt = NoEvt /\ obs = NoEvt
    /\ pgs = <<>> /\ thr = <<>>
    /\ lis = <<>> /\ mon = <<>> /\ com = <<>> /\ db = <<>> /\ fn = <<>>
    /\ col = <<>>

\* the scheduler's public surface, the supervisory loop and the entitlement
\* granted offline and lapsing with time
SchedSteps ==
    \/ \E n \in Names : ApiStart(n)
    \/ \E n \in Names : ApiStop(n)
    \/ ApiStopAll
    \/ LoopPoll
    \/ ActivateOffline
    \/ Tick
    \/ \E p \in Procs : ProcResume(p)

\* the run tasks up to their wait for the session
RunSteps ==
    \/ \E i \in DOMAIN runs : RunEmpty(i)
    \/ \E i \in DOMAIN runs, wait \in BOOLEAN : RunStart(i, wait)
    \/ \E i \in DOMAIN runs : RunNext(i)
    \/ \E i \in DOMAIN runs : RunExit(i)
    \/ \E i \in DOMAIN runs : RunFail(i)
    \/ \E i \in DOMAIN runs : LockAcquired(i)
    \/ \E i \in DOMAIN runs : CancelDelivered(i)

\* the session manager: launches, page openings, resets and closes
SessionSteps ==
    \/ \E i \in DOMAIN runs : ResetCtxDone(i)
    \/ \E i \in DOMAIN runs : ResetPwDone(i)
    \/ \E i \in DOMAIN runs : PwStarted(i, MaxSess)
    \/ \E i \in DOMAIN runs, ok \in BOOLEAN : Launched(i, ok)
    \/ \E i \in DOMAIN runs : PageOpened(i)
    \/ \E p \in Procs : ProcCtxClosed(p)
    \/ \E p \in Procs : ProcPwStopped(p)

\* the entitlement: activation answers and the periodic checks
LicenseSteps ==
    \/ \E tok \in BOOLEAN, texp \in ExpVals, lexp \in ExpVals : ActivateOk(tok, texp, lexp)
    \/ ActivateOffline
    \/ Tick
    \/ LocalCheck
    \/ RemoteWake
    \/ RemoteRefused
    \/ \E e \in ExpVals \cup {-1} : RemoteOk(e)

\* Scheduler, run tasks and session manager together.
Next == SchedSteps \/ RunSteps \/ SessionSteps

Spec == Init /\ [][Next]_vars

\* The scheduler and its run tasks while no session launch completes (the
\* driver start of ensure_browser stays pending).
NextSched == SchedSteps \/ RunSteps

SpecSched == Init /\ [][NextSched]_vars

\* start_service called with registered and unregistered names, the runs
\* doing no browser work
NextStart ==
    \/ ActivateOffline
    \/ \E n \in Names : ApiStart(n)
    \/ \E n \in Unregistered : StartUnregistered(n)
    \/ \E i \in DOMAIN runs : RunEmpty(i)
    \/ \E i \in DOMAIN runs : RunStart(i, TRUE)
    \/ \E i \in DOMAIN runs : RunExit(i)

SpecStart == Init /\ [][NextStart]_vars

\* The session manager under concurrent new_page calls of the runs, close()
\* calls and closures of the browser from outside; no run is cancelled.
NextBrowser ==
    \/ ActivateOffline
    \/ \E n \in {Collector, Commenter} : ApiStart(n)
    \/ \E i \in DOMAIN runs : RunStart(i, FALSE)
    \/ \E i \in DOMAIN runs : RunNext(i)
    \/ \E i \in DOMAIN runs : RunNextCheckRaises(i)
    \/ \E i \in DOMAIN runs : LockAcquired(i)
    \/ \E i \in DOMAIN runs : ResetCtxDone(i)
    \/ \E i \in DOMAIN runs : ResetPwDone(i)
    \/ \E i \in DOMAIN runs : PwStarted(i, MaxLaunch)
    \/ \E i \in DOMAIN runs, ok \in BOOLEAN : Launched(i, ok)
    \/ \E i \in DOMAIN runs : PageOpened(i)
    \/ CloseCall("api")
    \/ ProcCtxClosed("api")
    \/ ProcPwStopped("api")
    \/ ExternalClose

SpecBrowser == Init /\ [][NextBrowser]_vars

\* The entitlement checks over the scheduler, runs waiting in their body.
NextLic ==
    \/ LicenseSteps
    \/ \E n \in Names : ApiStart(n)
    \/ \E i \in DOMAIN runs : RunStart(i, TRUE)
    \/ \E i \in DOMAIN runs : RunExit(i)
    \/ \E i \in DOMAIN runs : CancelDelivered(i)
    \/ \E p \in Procs : ProcResume(p)

SpecLic == Init /\ [][NextLic]_vars

\* ------------------------------------------- the services, one at a time
\* everything the orchestration core holds
coreVars == <<schedVars, browserVars, proc, data, now, polled, pageVars>>

\* the core at rest, as __main__ leaves it
InitCore ==
    /\ tasks = <<>> /\ runs = <<>>
    /\ running = [n \in Names |-> FALSE]
    /\ lsOwner = 0
    /\ proc = [p \in Procs |-> IdleProc]
    /\ ctx = 0 /\ pw = 0 /\ lock = 0 /\ sess = <<>>
    /\ data = [valid |-> FALSE, expires_at |-> 0, token |-> FALSE,
               token_exp |-> 0, lic_exp |-> 0]
    /\ now = 1
    /\ polled = "none"
    /\ evt = NoEvt /\ obs = NoEvt
    /\ pgs = <<>> /\ thr = <<>>

\* ------------------------------------------ XHSListenerService.run / stop
\* XHSListenerService.__init__; run and sub are the asyncio tasks made for
\* and by this instance, in creation order
NewListener == [running |-> FALSE, tasks |-> {}, run |-> <<>>, sub |-> <<>>]

\* states in which a task has terminated
Over == {"done", "error", "cancelled"}

\* the sub-routine tasks that have not terminated
Polling(L) == {s \in DOMAIN L.sub : L.sub[s].st \notin Over}

\* t.cancel() for every t of T; a terminated task ignores it
CancelSubs(L, T) ==
    [L EXCEPT !.sub = [s \in DOMAIN L.sub |->
        IF s \in T /\ L.sub[s].st \notin Over
        THEN [L.sub[s] EXCEPT !.cancel = TRUE] ELSE L.sub[s]]]

\* stop(): the flag, a cancel() of every task of _tasks, _tasks = []
ListenerStop(L) ==
    [CancelSubs(L, L.tasks) EXCEPT !.running = FALSE, !.tasks = {}]

\* a step of the Listener instance to L
ListenerStep(L, e) ==
    /\ lis' = L
    /\ evt' = e /\ obs' = NoEvt
    /\ UNCHANGED <<coreVars, col, mon, com, db, fn>>

\* start_service("XHSListenerService"): a task for run() is created unless
\* the recorded one has not terminated
ListenerStart ==
    /\ Len(lis.run) < MaxRuns
    /\ \A r \in DOMAIN lis.run : lis.run[r].st \in Over
    /\ ListenerStep([lis EXCEPT !.run = Append(@, [st |-> "created", cancel |-> FALSE])],
                    NoEvt)

\* run() up to its gather: the flag, _tasks = [], one task per watch item
ListenerRunBegin(r, k) ==
    /\ lis.run[r].st = "created" /\ ~lis.run[r].cancel
    /\ LET n == Len(lis.sub)
           new == [i \in 1..k |-> [run |-> r, st |-> "created", cancel |-> FALSE]]
       IN ListenerStep([lis EXCEPT !.running = TRUE,
                                   !.tasks = (n + 1)..(n + k),
                                   !.sub = @ \o new,
                                   !.run[r].st = "gather"], NoEvt)

\* _monitor_item up to its loop: new_page and goto, either of which may raise
MonitorBegin(s, ok) ==
    /\ lis.sub[s].st = "created" /\ ~lis.sub[s].cancel
    /\ ListenerStep([lis EXCEPT !.sub[s].st = IF ok THEN "poll" ELSE "error"], NoEvt)

\* "while self._running" at the head of an iteration
MonitorLoop(s) ==
    /\ lis.sub[s].st = "poll" /\ ~lis.sub[s].cancel
    /\ ListenerStep([lis EXCEPT !.sub[s].st = IF lis.running THEN "poll" ELSE "done"],
                    [k |-> "poll", sub |-> s, on |-> lis.running])

\* the cancellation reaches the sub-routine at the await it is suspended on
MonitorCancelled(s) ==
    /\ lis.sub[s].st \notin Over /\ lis.sub[s].cancel
    /\ ListenerStep([lis EXCEPT !.sub[s].st = "cancelled"], NoEvt)

\* gather answers run(): the first exception of a sub-routine propagates, a
\* cancelled one raises CancelledError, which run() absorbs
GatherDone(r) ==
    /\ lis.run[r].st = "gather" /\ ~lis.run[r].cancel
    /\ LET mine == {s \in DOMAIN lis.sub : lis.sub[s].run = r} IN
       \/ /\ \E s \in mine : lis.sub[s].st = "error"
          /\ ListenerStep([lis EXCEPT !.run[r].st = "error"], NoEvt)
       \/ /\ \/ \E s \in mine : lis.sub[s].st = "cancelled"
             \/ \A s \in mine : lis.sub[s].st = "done"
          /\ ListenerStep([lis EXCEPT !.run[r].st = "done", !.running = FALSE], NoEvt)

\* svc.stop(), alone or as the first step of stop_service, which goes on to
\* task.cancel() without yielding
ListenerStopped(forced) ==
    /\ lis.run # <<>>
    /\ LET L == ListenerStop(lis) IN
       ListenerStep([L EXCEPT !.run = [r \in DOMAIN L.run |->
                        IF forced /\ L.run[r].st \notin Over
                        THEN [L.run[r] EXCEPT !.cancel = TRUE] ELSE L.run[r]]],
                    [k |-> "lstop", forced |-> forced])

\* the cancellation reaches run(): never started, or inside gather, which
\* cancels its children; run() absorbs the CancelledError
ListenerRunCancelled(r) ==
    /\ lis.run[r].st \notin Over /\ lis.run[r].cancel
    /\ IF lis.run[r].st = "created"
       THEN ListenerStep([lis EXCEPT !.run[r].st = "cancelled"], NoEvt)
       ELSE ListenerStep([CancelSubs(lis, {s \in DOMAIN lis.sub : lis.sub[s].run = r})
                            EXCEPT !.run[r].st = "done", !.running = FALSE], NoEvt)

InitListen ==
    /\ InitCore
    /\ col = <<>>
    /\ lis = NewListener
    /\ mon = <<>> /\ com = <<>> /\ db = <<>> /\ fn = <<>>

NextListen ==
    \/ ListenerStart
    \/ \E r \in DOMAIN lis.run, k \in 1..MaxWatch : ListenerRunBegin(r, k)
    \/ \E s \in DOMAIN lis.sub, ok \in BOOLEAN : MonitorBegin(s, ok)
    \/ \E s \in DOMAIN lis.sub : MonitorLoop(s)
    \/ \E s \in DOMAIN lis.sub : MonitorCancelled(s)
    \/ \E r \in DOMAIN lis.run : GatherDone(r)
    \/ \E forced \in BOOLEAN : ListenerStopped(forced)
    \/ \E r \in DOMAIN lis.run : ListenerRunCancelled(r)

SpecListen == InitListen /\ [][NextListen]_vars

\* ------------------------------- XHSListenerService._monitor_item polling
\* the comment nodes a poll can find: data-comment-id ("" when the attribute
\* is absent) and the text of the node
PlatformIds == {"", "id1"}
CommentTexts == {"x", "y"}

\* where the handling of one node raises: nowhere, in get_attribute, in the
\* extraction of text, user and time, or in add_comment_record
NodeFaults == {"none", "attr", "extract", "store"}

\* a visible node, with what will happen to it in this poll; reply: no rule
\* with a reply matches its text, or one does and _reply_to_comment raises
\* or goes through
Nodes == [id : PlatformIds, text : CommentTexts, fault : NodeFaults,
          reply : {"none", "raises", "sent"}]

\* lines 66-72: the platform id, else "md5_" and the digest of the text (two
\* texts have two digests)
CommentId(node) ==
    IF node.id # "" THEN <<"attr", node.id>> ELSE <<"md5_", node.text>>

\* no try block in the loop of _monitor_item
HandlerOfNone(site) == "none"

\* the handler that an exception raised at a site of the loop body reaches:
\* line 115 around the handling of one node, line 137 around one reply,
\* line 140 around the rest of the body (wait_for_selector,
\* query_selector_all)
HandlerOf(site) ==
    IF site \in NodeFaults THEN "node"
    ELSE IF site = "reply" THEN "reply" ELSE "loop"

\* _monitor_item line 48 and an empty xhs_comments: recs counts the rows by
\* comment_id and replied; new is new_comments. pc: in the loop ("poll"),
\* an exception on its way to line 140 ("skip") or out of the loop ("error")
NewMonitor ==
    [seen |-> {}, derived |-> {}, new |-> <<>>, pc |-> "poll",
     recs |-> [r \in {CommentId(n) : n \in Nodes} \X {0, 1} |-> 0]]

\* an exception is raised at a site: the handlers of lines 115 and 137 log
\* it and the body goes on, line 140 ends the iteration, and without a
\* handler the exception leaves the loop
Throw(m, site) ==
    [m EXCEPT !.pc = CASE HandlerOf(site) \in {"node", "reply"} -> @
                       [] HandlerOf(site) = "loop" -> "skip"
                       [] OTHER -> "error"]

\* add_comment_record: one more row
AddCommentRecord(recs, cid, replied) ==
    [recs EXCEPT ![<<cid, replied>>] = @ + 1]

\* lines 64-116 for one node: the id, the test against last_seen_ids, the
\* extraction, the record
ParseNode(m, node) ==
    IF m.pc # "poll" THEN m
    ELSE IF node.fault = "attr" THEN Throw(m, "attr")
    ELSE LET cid == CommentId(node)
             d == [m EXCEPT !.derived = @ \cup {cid}]
         IN IF cid \in m.seen THEN d
            ELSE IF node.fault \in {"extract", "store"}
            THEN Throw([d EXCEPT !.seen = @ \cup {cid}], node.fault)
            ELSE [d EXCEPT !.seen = @ \cup {cid},
                           !.recs = AddCommentRecord(@, cid, 0),
                           !.new = Append(@, node)]

RECURSIVE ParseNodes(_, _)
ParseNodes(m, nodes) ==
    IF nodes = <<>> THEN m ELSE ParseNodes(ParseNode(m, Head(nodes)), Tail(nodes))

\* lines 118-138 and _reply_to_comment: the reply record of every new comment
\* that a rule matches and whose reply flow did not raise
RECURSIVE ReplyAll(_, _)
ReplyAll(m, new) ==
    IF new = <<>> \/ m.pc # "poll" THEN m
    ELSE ReplyAll(CASE Head(new).reply = "sent" ->
                          [m EXCEPT !.recs = AddCommentRecord(@, CommentId(Head(new)), 1)]
                    [] Head(new).reply = "raises" -> Throw(m, "reply")
                    [] OTHER -> m,
                  Tail(new))

\* one iteration of the loop of _monitor_item, lines 55-143; wait_ok: whether
\* wait_for_selector and query_selector_all go through
PollOnce(m, nodes, wait_ok) ==
    LET s == [m EXCEPT !.new = <<>>]
        p == ParseNodes(IF wait_ok THEN s ELSE Throw(s, "wait"), nodes)
        r == ReplyAll(p, p.new)
    IN [r EXCEPT !.pc = IF @ = "skip" THEN "poll" ELSE @]

\* the sites at which that iteration raises
Raised(m, nodes, wait_ok) ==
    LET p == PollOnce(m, nodes, wait_ok)
    IN UNION {{nodes[i].fault : i \in DOMAIN nodes} \ {"none"},
              IF \E i \in DOMAIN p.new : p.new[i].reply = "raises"
              THEN {"reply"} ELSE {},
              IF wait_ok THEN {} ELSE {"wait"}}

MonitorPoll(nodes, wait_ok) ==
    /\ mon.pc = "poll"
    /\ mon' = PollOnce(mon, nodes, wait_ok)
    /\ evt' = [k |-> "poll", ids |-> {CommentId(nodes[i]) : i \in DOMAIN nodes},
               raised |-> {"extract", "reply"} \subseteq Raised(mon, nodes, wait_ok)]
    /\ obs' = NoEvt
    /\ UNCHANGED <<coreVars, col, lis, com, db, fn>>

InitMonitor ==
    /\ InitCore
    /\ col = <<>>
    /\ mon = NewMonitor
    /\ lis = <<>> /\ com = <<>> /\ db = <<>> /\ fn = <<>>

NextMonitor ==
    \/ \E n \in 0..MaxNodes : \E nodes \in [1..n -> Nodes] : MonitorPoll(nodes, TRUE)
    \/ MonitorPoll(<<>>, FALSE)

SpecMonitor == InitMonitor /\ [][NextMonitor]_vars

\* ------------------------------------------- pure functions of the services
\* strings are sequences of characters
Chars == {"a", "b"}

\* comment texts and the keywords of a rule group (<<>> is the empty string)
Texts == {<<>>, <<"a">>, <<"b">>, <<"a", "b">>, <<"b", "a">>}
Keywords == {<<>>, <<"a">>, <<"a", "b">>}

\* the reply templates of a rule group
Templates == {"", "r1", "r2"}

\* the sequences over S of length at most n
SeqsUpTo(S, n) == UNION {[1..k -> S] : k \in 0..n}

\* "kw in text" of two Python strings
Occurs(kw, text) ==
    \E i \in 0..(Len(text) - Len(kw)) : SubSeq(text, i + 1, i + Len(kw)) = kw

\* lines 124-128: the first keyword of the group that is non-empty and
\* occurs in the text (<<>> when there is none)
RECURSIVE FirstKeyword(_, _)
FirstKeyword(kws, text) ==
    IF kws = <<>> THEN <<>>
    ELSE IF Head(kws) # <<>> /\ Occurs(Head(kws), text) THEN Head(kws)
    ELSE FirstKeyword(Tail(kws), text)

\* the search taking the last matching group
RECURSIVE MatchRuleLast(_, _)
MatchRuleLast(groups, text) ==
    IF groups = <<>> THEN [matched_keyword |-> <<>>, reply_text |-> ""]
    ELSE LET kw == FirstKeyword(groups[Len(groups)].keywords, text) IN
         IF kw # <<>>
         THEN [matched_keyword |-> kw, reply_text |-> groups[Len(groups)].reply]
         ELSE MatchRuleLast(SubSeq(groups, 1, Len(groups) - 1), text)

\* lines 119-130: the groups in order, stopping at the first with a match
RECURSIVE MatchRule(_, _)
MatchRule(groups, text) ==
    IF groups = <<>> THEN [matched_keyword |-> <<>>, reply_text |-> ""]
    ELSE LET kw == FirstKeyword(Head(groups).keywords, text) IN
         IF kw # <<>>
         THEN [matched_keyword |-> kw, reply_text |-> Head(groups).reply]
         ELSE MatchRule(Tail(groups), text)

\* line 132: whether _reply_to_comment is called with the match
ReplyMade(m) == m.matched_keyword # <<>> /\ m.reply_text # ""

\* the rule_groups and comment texts the matching is applied to
MatchInputs ==
    [f : {"match"},
     groups : SeqsUpTo([keywords : SeqsUpTo(Keywords, 2), reply : Templates], MaxGroups),
     text : Texts]

\* a function not yet applied to its argument
Unapplied(in) == [in |-> in, done |-> FALSE, out |-> <<>>]

\* the function returns
Return(out) ==
    /\ fn' = [fn EXCEPT !.done = TRUE, !.out = out]
    /\ evt' = NoEvt /\ obs' = NoEvt
    /\ UNCHANGED <<coreVars, col, lis, mon, com, db>>

\* the rule matching for one new comment
ApplyMatch ==
    /\ ~fn.done /\ fn.in.f = "match"
    /\ LET m == MatchRule(fn.in.groups, fn.in.text) IN
       Return([made |-> ReplyMade(m), reply |-> m.reply_text, kw |-> m.matched_keyword])


\* the characters of a keywords string: letters, the comma, the blank and
\* the full-width comma U+FF0C
KeywordChars == {"a", "b", ",", " ", "U+FF0C"}

\* the items of a keywords list: strings, and a value that is not a string
KeywordItems ==
    [str : {TRUE}, s : SeqsUpTo({"a", "b", " "}, 2)] \cup {[str |-> FALSE, s |-> <<>>]}

\* a replace that leaves the string as it is
ReplaceNothing(s, old, new) == s

\* str.replace(old, new) for one-character old and new
Replace(s, old, new) == [i \in DOMAIN s |-> IF s[i] = old THEN new ELSE s[i]]

\* str.isspace for the characters at hand
IsSpace(c) == c = " "

\* str.strip() = "" : nothing but whitespace
Blank(s) == \A i \in DOMAIN s : IsSpace(s[i])

\* str.split(): the runs of non-whitespace, left to right; cur is the run
\* being read
RECURSIVE SplitFrom(_, _)
SplitFrom(s, cur) ==
    IF s = <<>> THEN (IF cur = <<>> THEN <<>> ELSE <<cur>>)
    ELSE IF IsSpace(Head(s))
    THEN (IF cur = <<>> THEN <<>> ELSE <<cur>>) \o SplitFrom(Tail(s), <<>>)
    ELSE SplitFrom(Tail(s), Append(cur, Head(s)))

Split(s) == SplitFrom(s, <<>>)

\* XHSCollectorService.run lines 28-32
ParseKeywords(in) ==
    IF in.kind = "str"
    THEN SelectSeq(Split(Replace(Replace(in.s, "U+FF0C", " "), ",", " ")),
                   LAMBDA k : k # <<>>)
    ELSE LET kept == SelectSeq(in.items, LAMBDA k : k.str /\ ~Blank(k.s))
         IN [i \in DOMAIN kept |-> kept[i].s]

\* the keywords values run() is applied to
KeywordInputs ==
    [f : {"keywords"}, kind : {"str"}, s : SeqsUpTo(KeywordChars, MaxKeywordsLen)]
        \cup [f : {"keywords"}, kind : {"list"}, items : SeqsUpTo(KeywordItems, 2)]

\* the keyword parsing at the head of run()
ApplyKeywords ==
    /\ ~fn.done /\ fn.in.f = "keywords"
    /\ Return(ParseKeywords(fn.in))

InitPure ==
    /\ InitCore
    /\ col = <<>>
    /\ \E in \in MatchInputs \cup KeywordInputs : fn = Unapplied(in)
    /\ lis = <<>> /\ mon = <<>> /\ com = <<>> /\ db = <<>>

NextPure ==
    \/ ApplyMatch
    \/ ApplyKeywords

SpecPure == InitPure /\ [][NextPure]_vars

\* --------------------------------------- _parse_int and IEEE-754 doubles
\* numbers too wide for machine integers are sequences of binary digits,
\* most significant first (<<>> is 0)
RECURSIVE ToBits(_)
ToBits(n) == IF n = 0 THEN <<>> ELSE Append(ToBits(n \div 2), n % 2)

RECURSIVE FromBits(_)
FromBits(b) ==
    IF b = <<>> THEN 0 ELSE 2 * FromBits(SubSeq(b, 1, Len(b) - 1)) + b[Len(b)]

\* b * 2^k
Shl(b, k) == b \o [i \in 1..k |-> 0]

\* b without its leading zeros
Normal(b) ==
    LET ones == {i \in DOMAIN b : b[i] = 1}
    IN IF ones = {} THEN <<>>
       ELSE SubSeq(b, CHOOSE i \in ones : \A j \in ones : i <= j, Len(b))

\* b + 1
Inc(b) ==
    LET zeros == {i \in DOMAIN b : b[i] = 0}
        z == CHOOSE i \in zeros : \A j \in zeros : j <= i
    IN IF zeros = {} THEN <<1>> \o [i \in DOMAIN b |-> 0]
       ELSE [i \in DOMAIN b |-> IF i < z THEN b[i] ELSE IF i = z THEN 1 ELSE 0]

\* 2^j mod D, within machine integers (j < 90, D < 10^4)
PowMod(j, D) ==
    IF D = 1 THEN 0
    ELSE (((((2^30) % D)^(j \div 30)) % D) * ((2^(j % 30)) % D)) % D

\* the binary digits of floor(N * 2^K / D): those of N div D, then K digits
\* of the fraction, digit j being floor(2 * ((N * 2^(j-1)) mod D) / D)
QuotBits(N, D, K) ==
    ToBits(N \div D) \o
        [j \in 1..K |-> (2 * (((N % D) * PowMod(j - 1, D)) % D)) \div D]

\* whether that division leaves a remainder
QuotInexact(N, D, K) == ((N % D) * PowMod(K, D)) % D # 0

\* b with zeros in front, to width w
Pad(b, w) == [i \in 1..(w - Len(b)) |-> 0] \o b

\* b * M for a machine integer M < 2^14, thirteen digits at a time from the
\* least significant end
RECURSIVE MulBits(_, _, _)
MulBits(b, M, carry) ==
    IF Len(b) <= 13 THEN ToBits(FromBits(b) * M + carry)
    ELSE LET t == FromBits(SubSeq(b, Len(b) - 12, Len(b))) * M + carry
         IN MulBits(SubSeq(b, 1, Len(b) - 13), M, t \div 8192) \o Pad(ToBits(t % 8192), 13)

\* the significand of a double has 53 binary digits
Mantissa == 53

\* digits kept below the binary point when a decimal is converted
Guard == 70

\* round to nearest, ties to even: the number b (plus something below its
\* last digit when sticky) as a significand m and a power of two e
RoundDouble(b, sticky) ==
    IF Len(b) <= Mantissa THEN [m |-> b, e |-> 0]
    ELSE LET m == SubSeq(b, 1, Mantissa)
             rest == SubSeq(b, Mantissa + 1, Len(b))
             below == sticky \/ \E i \in 2..Len(rest) : rest[i] = 1
             up == rest[1] = 1 /\ (below \/ m[Mantissa] = 1)
             r == IF up THEN Inc(m) ELSE m
         IN IF Len(r) > Mantissa
            THEN [m |-> SubSeq(r, 1, Mantissa), e |-> Len(rest) + 1]
            ELSE [m |-> r, e |-> Len(rest)]

\* int(float(num) * M) where num is the decimal N / D: the correctly rounded
\* double of num, the correctly rounded product, the truncation
IntFloatTimes(N, D, M) ==
    LET x == RoundDouble(Normal(QuotBits(N, D, Guard)), QuotInexact(N, D, Guard))
        p == RoundDouble(Normal(MulBits(x.m, M, 0)), FALSE)
        e == p.e + x.e - Guard
    IN IF e >= 0 THEN FromBits(Shl(p.m, e))
       ELSE FromBits(SubSeq(p.m, 1, Len(p.m) + e))

\* int(num * M) computed on the decimal itself
IntExactTimes(N, D, M) == (N * M) \div D

Digits == <<"0", "1", "2", "3", "4", "5", "6", "7", "8", "9">>

IsDigit(c) == \E i \in DOMAIN Digits : Digits[i] = c

DigitValue(c) == (CHOOSE i \in DOMAIN Digits : Digits[i] = c) - 1

\* the characters of a counter text: some digits, the point, the comma, the
\* plus sign, the blank, the units k, K, w and U+4E07 (ten thousand)
CountChars == {"1", "2", "3", "4", "5", ".", ",", "+", " ", "k", "K", "w", "U+4E07"}

\* str.strip(): without the whitespace at both ends
StripWs(s) ==
    LET ink == {i \in DOMAIN s : ~IsSpace(s[i])}
    IN IF ink = {} THEN <<>>
       ELSE SubSeq(s, CHOOSE i \in ink : \A j \in ink : i <= j,
                      CHOOSE i \in ink : \A j \in ink : j <= i)

\* str.lower()
Lower(s) == [i \in DOMAIN s |-> IF s[i] = "K" THEN "k" ELSE s[i]]

\* str.replace(c, "")
Remove(s, c) == SelectSeq(s, LAMBDA x : x # c)

\* int(digits) for a string of digits
RECURSIVE IntOf(_)
IntOf(s) ==
    IF s = <<>> THEN 0
    ELSE 10 * IntOf(SubSeq(s, 1, Len(s) - 1)) + DigitValue(s[Len(s)])

RECURSIVE Pow10(_)
Pow10(n) == IF n = 0 THEN 1 ELSE 10 * Pow10(n - 1)

\* the digits and points of t as a decimal: float() accepts it when it has
\* a digit and at most one point; its value is N / D
Decimal(t) ==
    LET num == SelectSeq(t, LAMBDA c : IsDigit(c) \/ c = ".")
        s == IF num = <<>> THEN <<"0">> ELSE num
        points == {i \in DOMAIN s : s[i] = "."}
    IN [ok |-> Cardinality(points) <= 1 /\ \E i \in DOMAIN s : IsDigit(s[i]),
        N |-> IntOf(Remove(s, ".")),
        D |-> IF points = {} THEN 1 ELSE Pow10(Len(s) - CHOOSE i \in points : TRUE)]

\* int(float(num) * M), or the ValueError of float(); exact: computed on
\* the decimal instead of the double
Scaled(exact, t, M) ==
    LET n == Decimal(t)
    IN IF n.ok
       THEN [raised |-> FALSE,
             v |-> IF exact THEN IntExactTimes(n.N, n.D, M)
                   ELSE IntFloatTimes(n.N, n.D, M)]
       ELSE [raised |-> TRUE, v |-> 0]

\* _parse_int, lines 92-107
ParseIntBy(exact, text) ==
    LET t == Remove(Remove(Lower(StripWs(text)), "+"), ",")
    IN IF \E i \in DOMAIN t : t[i] \in {"U+4E07", "w"} THEN Scaled(exact, t, 10000)
       ELSE IF \E i \in DOMAIN t : t[i] = "k" THEN Scaled(exact, t, 1000)
       ELSE [raised |-> FALSE, v |-> IntOf(SelectSeq(t, IsDigit))]

ParseInt(text) == ParseIntBy(FALSE, text)

\* the counter texts of the cards
CountInputs == [f : {"count"}, text : SeqsUpTo(CountChars, MaxCountLen)]

ApplyParseInt ==
    /\ ~fn.done /\ fn.in.f = "count"
    /\ Return(ParseInt(fn.in.text))

InitCount ==
    /\ InitCore
    /\ col = <<>>
    /\ \E in \in CountInputs : fn = Unapplied(in)
    /\ lis = <<>> /\ mon = <<>> /\ com = <<>> /\ db = <<>>

NextCount ==
    \/ ApplyParseInt

SpecCount == InitCount /\ [][NextCount]_vars

\* --------------------------------------------- DataStorage.xhs_items
\* the items the Collector hands to insert_or_update_item: item_url, title,
\* keyword, the counters <<like_count, collect_count, comment_count>>, type.
\* Every column takes two values; four items per item_url are drawn.
Urls == {<<"url", u>> : u \in 1..MaxUrls}
Items ==
    {item \in [item_url : Urls, title : {"t1", "t2"}, keyword : {"k1", "k2"},
               counts : {<<0, 0, 0>>, <<12000, 0, 3>>}, type : {"note", "video"}] :
        /\ (item.title = "t1") = (item.type = "note")
        /\ (item.keyword = "k1") = (item.counts = <<0, 0, 0>>)}

\* the reply_ts values handed to mark_item_commented
ReplyTimes == {1, 2}

\* a row of xhs_items made from an item: comment_status and last_comment_time
\* have their defaults (lines 43-44)
Row(item) ==
    [item_url |-> item.item_url, title |-> item.title, keyword |-> item.keyword,
     counts |-> item.counts, type |-> item.type, comment_status |-> "",
     last_comment_time |-> 0]

\* the position of the row with that item_url (0: none)
RowOf(rows, url) ==
    IF \E i \in DOMAIN rows : rows[i].item_url = url
    THEN CHOOSE i \in DOMAIN rows : rows[i].item_url = url ELSE 0

\* INSERT without the ON CONFLICT clause, on a table without the UNIQUE
\* constraint
InsertItem(rows, item) == Append(rows, Row(item))

\* lines 72-103: INSERT ... ON CONFLICT(item_url) DO UPDATE SET the columns
\* of the item; comment_status and last_comment_time keep their values
\* INSERT OR REPLACE: the row in conflict is deleted and a new one, with the
\* defaults in the columns not listed, is inserted
ReplaceItem(rows, item) ==
    LET i == RowOf(rows, item.item_url)
    IN IF i = 0 THEN Append(rows, Row(item))
       ELSE Append(SubSeq(rows, 1, i - 1) \o SubSeq(rows, i + 1, Len(rows)),
                   Row(item))

InsertOrUpdateItem(rows, item) ==
    LET i == RowOf(rows, item.item_url)
    IN IF i = 0 THEN Append(rows, Row(item))
       ELSE [rows EXCEPT ![i] =
                [Row(item) EXCEPT !.comment_status = rows[i].comment_status,
                                  !.last_comment_time = rows[i].last_comment_time]]

\* lines 109-112: UPDATE ... SET comment_status, last_comment_time
\* WHERE item_url = ?
MarkItemCommented(rows, url, reply_ts) ==
    [i \in DOMAIN rows |-> IF rows[i].item_url = url
                           THEN [rows[i] EXCEPT !.comment_status = "commented",
                                                !.last_comment_time = reply_ts]
                           ELSE rows[i]]

\* init_database on a new file; last is the item of the latest
\* insert_or_update_item call for each item_url
InitItems ==
    /\ InitCore
    /\ col = <<>>
    /\ db = [rows |-> <<>>, last |-> <<>>]
    /\ lis = <<>> /\ mon = <<>> /\ com = <<>> /\ fn = <<>>

Upsert(item) ==
    /\ db' = [rows |-> InsertOrUpdateItem(db.rows, item),
              last |-> [u \in DOMAIN db.last \cup {item.item_url} |->
                            IF u = item.item_url THEN item ELSE db.last[u]]]
    /\ evt' = [k |-> "upsert", url |-> item.item_url,
               over |-> RowOf(db.rows, item.item_url) # 0
                        /\ db.last[item.item_url] # item]
    /\ obs' = NoEvt
    /\ UNCHANGED <<coreVars, col, lis, mon, com, fn>>

Commented(url, reply_ts) ==
    /\ db' = [db EXCEPT !.rows = MarkItemCommented(@, url, reply_ts)]
    /\ evt' = [k |-> "mark", url |-> url]
    /\ obs' = NoEvt
    /\ UNCHANGED <<coreVars, col, lis, mon, com, fn>>

NextItems ==
    \/ \E item \in Items : Upsert(item)
    \/ \E url \in Urls, reply_ts \in ReplyTimes : Commented(url, reply_ts)

SpecItems == InitItems /\ [][NextItems]_vars

\* ------------------------------------------- XHSCommenterService.run / stop
\* time is counted in ticks of 5 seconds here: a minute (the 60 of lines
\* 38 and 79) and the sleep increment (the 10 of line 83)
Minute == 12
Step == 2

\* the values of min_interval_min and max_interval_min followed, in minutes
MinIntervals == 0..1
MaxIntervals == 0..2

\* the longest minimum interval, beyond which the age of _last_comment_ts is
\* not told apart
SinceCap == Minute * CHOOSE m \in MinIntervals : \A x \in MinIntervals : x <= m

Min(a, b) == IF a < b THEN a ELSE b
Max(a, b) == IF a < b THEN b ELSE a

\* positions at which no run of the Commenter is active
ComOver == {"idle", "done", "error"}

\* XHSCommenterService.__init__, no run started; since is the time passed
\* since _last_comment_ts when last says that it is set. The fields from
\* pages on record what the current run did, halt where stop() found it.
NewCommenter ==
    [running |-> FALSE, last |-> FALSE, since |-> 0, pc |-> "idle",
     n |-> 0, max_total |-> 0, min |-> 0, max |-> 0,
     i |-> 0, total |-> 0, rem |-> 0, slept |-> 0, interval |-> 0, acq |-> 0,
     runs |-> 0, posts |-> 0, pages |-> 0, sleeps |-> 0,
     halt |-> "-", target |-> 0, after |-> 0, pagesAfter |-> 0, postsAfter |-> 0]

\* line 87
ComFinished(c) ==
    [c EXCEPT !.pc = "done", !.running = FALSE,
              !.rem = 0, !.slept = 0, !.interval = 0, !.acq = 0]

\* the loop head without the quota test
LoopHeadNoQuota(c) ==
    IF c.i > c.n \/ ~c.running THEN ComFinished(c)
    ELSE IF c.last /\ c.since < c.min * Minute
    THEN [c EXCEPT !.pc = "msleep", !.rem = c.min * Minute - c.since,
                   !.sleeps = 1]
    ELSE [c EXCEPT !.pc = "acquire"]

\* the loop head without the wait for the minimum interval
LoopHeadNoWait(c) ==
    IF c.i > c.n \/ ~c.running \/ c.total >= c.max_total THEN ComFinished(c)
    ELSE [c EXCEPT !.pc = "acquire"]

\* lines 31-43 for target c.i, up to the next suspension: the end of the
\* list, the flag, the quota, the minimum interval
LoopHead(c) ==
    IF c.i > c.n \/ ~c.running \/ c.total >= c.max_total THEN ComFinished(c)
    ELSE IF c.last /\ c.since < c.min * Minute
    THEN [c EXCEPT !.pc = "msleep", !.rem = c.min * Minute - c.since,
                   !.sleeps = 1]
    ELSE [c EXCEPT !.pc = "acquire"]

\* the sleep loop deaf to the flag
SleepLoopOn(c) ==
    IF c.slept < c.interval
    THEN [c EXCEPT !.pc = "psleep", !.rem = Min(Step, c.interval - c.slept),
                   !.sleeps = 1]
    ELSE LoopHead([c EXCEPT !.i = @ + 1])

\* lines 81-85: the test of the sleep loop, then the next increment or the
\* next target
SleepLoop(c) ==
    IF c.running /\ c.slept < c.interval
    THEN [c EXCEPT !.pc = "psleep", !.rem = Min(Step, c.interval - c.slept),
                   !.sleeps = 1]
    ELSE LoopHead([c EXCEPT !.i = @ + 1])

\* the values random.randint(wait_min * 60, wait_max * 60) is followed for:
\* both ends of the range and the value after the lower end
Intervals(c) ==
    LET wait_min == Max(c.min, 1)
        wait_max == Max(c.max, wait_min)
    IN {x \in {wait_min * Minute, wait_min * Minute + 1, wait_max * Minute} :
            x <= wait_max * Minute}

\* a step of the Commenter to c
ComStep(c, e) ==
    /\ com' = c
    /\ evt' = e /\ obs' = NoEvt
    /\ UNCHANGED <<coreVars, col, lis, mon, db, fn>>

\* start_service("XHSCommenterService", ...): a task for run() is created
\* unless the recorded one has not terminated
ComStart(n, max_total, min, max) ==
    /\ com.pc \in ComOver /\ com.runs < MaxComRuns
    /\ ComStep([com EXCEPT !.pc = "created", !.runs = @ + 1,
                           !.n = n, !.max_total = max_total, !.min = min, !.max = max,
                           !.i = 0, !.total = 0,
                           !.posts = 0, !.pages = 0, !.sleeps = 0,
                           !.halt = "-", !.target = 0, !.after = 0,
                           !.pagesAfter = 0, !.postsAfter = 0], NoEvt)

\* run() from its first line to its first suspension
ComBegin ==
    /\ com.pc = "created"
    /\ ComStep(LoopHead([com EXCEPT !.running = TRUE, !.total = 0, !.i = 1,
                                    !.halt = "-"]), NoEvt)

\* the sleep of line 41 is over: new_page is called
ComWaited ==
    /\ com.pc = "msleep" /\ com.rem = 0
    /\ ComStep([com EXCEPT !.pc = "acquire"], NoEvt)

\* new_page returns a page, or raises, which ends run()
ComAcquired(ok) ==
    /\ com.pc = "acquire"
    /\ IF ok
       THEN ComStep([com EXCEPT !.pc = "post", !.acq = com.since,
                                !.pages = 1,
                                !.pagesAfter = IF com.halt # "-" THEN 1 ELSE @],
                    [k |-> "page", target |-> com.i])
       ELSE ComStep([com EXCEPT !.pc = "error", !.rem = 0, !.slept = 0,
                                !.interval = 0, !.acq = 0], NoEvt)

\* lines 45-70 without the except clause: an exception leaves run()
ComPostedUncaught(ok) ==
    /\ com.pc = "post"
    /\ IF ok
       THEN ComStep([com EXCEPT !.pc = "close", !.last = TRUE, !.since = 0,
                                !.total = @ + 1, !.posts = @ + 1,
                                !.postsAfter = IF com.halt # "-" THEN 1 ELSE @],
                    [k |-> "posted", target |-> com.i, had |-> com.last,
                     gap |-> com.acq, min |-> com.min])
       ELSE ComStep([com EXCEPT !.pc = "error", !.rem = 0, !.slept = 0,
                                !.interval = 0, !.acq = 0],
                    [k |-> "failed", target |-> com.i])

\* lines 45-70: the comment is sent and recorded (mark_item_commented,
\* _last_comment_ts, total), or an exception is caught; page.close() is called
ComPosted(ok) ==
    /\ com.pc = "post"
    /\ IF ok
       THEN ComStep([com EXCEPT !.pc = "close", !.last = TRUE, !.since = 0,
                                !.total = @ + 1, !.posts = @ + 1,
                                !.postsAfter = IF com.halt # "-" THEN 1 ELSE @],
                    [k |-> "posted", target |-> com.i, had |-> com.last,
                     gap |-> com.acq, min |-> com.min])
       ELSE ComStep([com EXCEPT !.pc = "close"],
                    [k |-> "failed", target |-> com.i])

\* the page is closed; lines 77-81: the interval is drawn, the sleep begins
ComClosed(interval) ==
    /\ com.pc = "close"
    /\ ComStep(SleepLoop([com EXCEPT !.interval = interval, !.slept = 0]),
               [k |-> "drawn", interval |-> interval])

\* an increment of the sleep is over (lines 84-85)
ComStepDone ==
    /\ com.pc = "psleep" /\ com.rem = 0
    /\ LET step == Min(Step, com.interval - com.slept) IN
       ComStep(SleepLoop([com EXCEPT !.slept = @ + step]),
               [k |-> "slept", step |-> step])

\* stop(), lines 89-90
ComStop ==
    /\ com.pc \notin ComOver /\ com.halt = "-"
    /\ ComStep([com EXCEPT !.running = FALSE, !.halt = com.pc, !.target = com.i],
               [k |-> "cstop"])

\* 5 seconds pass; a sleep that is due is woken first
ComTick ==
    /\ com.pc \in {"msleep", "psleep"} => com.rem > 0
    /\ com.pc \notin ComOver \cup {"created"} \/ (com.last /\ com.since < SinceCap)
    /\ ComStep([com EXCEPT !.since = IF com.last THEN Min(@ + 1, SinceCap) ELSE @,
                           !.rem = IF @ > 0 THEN @ - 1 ELSE 0,
                           !.after = IF com.halt # "-" /\ com.pc \in {"msleep", "psleep"}
                                     THEN Min(@ + 1, Step + 1) ELSE @],
               NoEvt)

InitComment ==
    /\ InitCore
    /\ col = <<>>
    /\ com = NewCommenter
    /\ lis = <<>> /\ mon = <<>> /\ db = <<>> /\ fn = <<>>

NextComment ==
    \/ \E n \in 0..MaxTargets, t \in 0..MaxTargets, mn \in MinIntervals, mx \in MaxIntervals :
            ComStart(n, t, mn, mx)
    \/ ComBegin
    \/ ComWaited
    \/ \E ok \in BOOLEAN : ComAcquired(ok)
    \/ \E ok \in BOOLEAN : ComPosted(ok)
    \/ \E interval \in Intervals(com) : ComClosed(interval)
    \/ ComStepDone
    \/ ComStop
    \/ ComTick

SpecComment == InitComment /\ [][NextComment]_vars

\* ------------------------------------------ XHSCollectorService.run / stop
\* line 63
max_scroll == 40

\* what a card of the result list does to the body of lines 73-149: an item
\* is stored; the card has no link or no href (continue); the parsing or
\* insert_or_update_item raises, which line 148 catches
CardKinds == {"item", "skip", "raises"}

\* positions at which no run of the Collector is active
ColOver == {"idle", "done", "error", "cancelled"}

\* positions inside _collect_for_keyword
InKeyword == {"page", "goto", "scan", "scroll", "close"}

\* XHSCollectorService.__init__, no run started. n keywords, kw the current
\* one, cap is items_per_keyword; how is the way the try block was left.
\* upserts and scrolls count what was done for the current keyword, stopped
\* says that stop() was called since the run was created.
NewCollector ==
    [running |-> FALSE, pc |-> "idle", cancel |-> FALSE, how |-> "-",
     n |-> 0, kw |-> 0, cap |-> 0, collected |-> 0, scroll_count |-> 0,
     runs |-> 0, upserts |-> 0, scrolls |-> 0, stopped |-> FALSE]

\* lines 36-41: the next keyword is started unless the list is exhausted or
\* the flag is down
ForHead(c) ==
    IF c.kw > c.n \/ ~c.running
    THEN [c EXCEPT !.pc = "done", !.running = FALSE]
    ELSE [c EXCEPT !.pc = "page", !.upserts = 0, !.scrolls = 0,
                   !.collected = 0, !.scroll_count = 0]

\* the loop test without the ceiling of the scroll count
WhileHeadNoCeiling(c) ==
    IF c.collected < c.cap
    THEN [c EXCEPT !.pc = "scan"]
    ELSE [c EXCEPT !.pc = "close", !.how = "ok"]

\* line 66
WhileHead(c) ==
    IF c.collected < c.cap /\ c.scroll_count < max_scroll
    THEN [c EXCEPT !.pc = "scan"]
    ELSE [c EXCEPT !.pc = "close", !.how = "ok"]

\* lines 70-149 from card i on
RECURSIVE ForCards(_, _, _)
ForCards(c, cards, i) ==
    IF i > Len(cards) \/ c.collected >= c.cap THEN c
    ELSE ForCards(IF cards[i] = "item"
                  THEN [c EXCEPT !.collected = @ + 1, !.upserts = @ + 1]
                  ELSE c,
                  cards, i + 1)

\* lines 151-154: out of the loop when the cap is reached, else a scroll
AfterCards(c) ==
    IF c.collected >= c.cap
    THEN [c EXCEPT !.pc = "close", !.how = "ok"]
    ELSE [c EXCEPT !.pc = "scroll"]

\* an exception inside the try block of line 56: the finally clause
Failed(c) == [c EXCEPT !.pc = "close", !.how = "error"]

\* a step of the Collector to c
ColStep(c, e) ==
    /\ col' = c
    /\ evt' = e /\ obs' = NoEvt
    /\ UNCHANGED <<coreVars, lis, mon, com, db, fn>>

\* start_service("XHSCollectorService", ...): a task for run() is created
\* unless the recorded one has not terminated
ColStart(n, cap) ==
    /\ col.pc \in ColOver /\ col.runs < MaxColRuns
    /\ ColStep([col EXCEPT !.pc = "created", !.runs = @ + 1, !.cancel = FALSE,
                           !.how = "-", !.n = n, !.cap = cap, !.kw = 0,
                           !.collected = 0, !.scroll_count = 0,
                           !.upserts = 0, !.scrolls = 0, !.stopped = FALSE],
               NoEvt)

\* run() from its first line to new_page for the first keyword
ColBegin ==
    /\ col.pc = "created" /\ ~col.cancel
    /\ ColStep(ForHead([col EXCEPT !.running = TRUE, !.kw = 1]),
               [k |-> "keyword", stopped |-> col.stopped])

\* line 51: new_page returns a page, or raises, which ends run()
ColPage(ok) ==
    /\ col.pc = "page" /\ ~col.cancel
    /\ ColStep(IF ok THEN [col EXCEPT !.pc = "goto"]
                     ELSE [col EXCEPT !.pc = "error"], NoEvt)

\* lines 58-66: the search page is loaded, or goto raises
ColGoto(ok) ==
    /\ col.pc = "goto" /\ ~col.cancel
    /\ ColStep(IF ok THEN WhileHead([col EXCEPT !.collected = 0,
                                                !.scroll_count = 0])
                     ELSE Failed(col), NoEvt)

\* lines 67-152: query_selector_all returns the cards shown, or raises
ColScanned(cards, ok) ==
    /\ col.pc = "scan" /\ ~col.cancel
    /\ ColStep(IF ok THEN AfterCards(ForCards(col, cards, 1)) ELSE Failed(col),
               [k |-> "scan", cards |-> Len(cards)])

\* lines 154-158 and 66: the page was scrolled, or evaluate raises
ColScrolled(ok) ==
    /\ col.pc = "scroll" /\ ~col.cancel
    /\ ColStep(IF ok THEN WhileHead([col EXCEPT !.scroll_count = @ + 1,
                                                !.scrolls = @ + 1])
                     ELSE Failed(col), NoEvt)

\* lines 159-163, then 36-41: page.close() is over, whatever it did
ColClosed ==
    /\ col.pc = "close" /\ ~col.cancel
    /\ IF col.how = "ok"
       THEN ColStep(ForHead([col EXCEPT !.kw = @ + 1, !.how = "-"]),
                    [k |-> "keyword", stopped |-> col.stopped])
       ELSE ColStep([col EXCEPT !.pc = col.how, !.how = "-"], NoEvt)

\* stop_service, lines 53-58: stop() lowers the flag and the recorded task,
\* which is the run as long as it has not terminated, is cancelled
ColStop ==
    /\ col.pc \notin ColOver /\ ~col.stopped
    /\ ColStep([col EXCEPT !.running = FALSE, !.cancel = TRUE, !.stopped = TRUE],
               [k |-> "colstop"])

\* the cancellation reaches the run at the call it awaits: before its first
\* line or in new_page it ends there, inside the try block the finally
\* clause closes the page first
ColCancelled ==
    /\ col.cancel
    /\ ColStep(IF col.pc \in {"goto", "scan", "scroll"}
               THEN [col EXCEPT !.pc = "close", !.how = "cancelled", !.cancel = FALSE]
               ELSE [col EXCEPT !.pc = "cancelled", !.how = "-", !.cancel = FALSE],
               NoEvt)

InitCollect ==
    /\ InitCore
    /\ col = NewCollector
    /\ lis = <<>> /\ mon = <<>> /\ com = <<>> /\ db = <<>> /\ fn = <<>>

\* the steps of the run: every call it awaits returns or raises
ColSteps ==
    \/ ColBegin
    \/ \E ok \in BOOLEAN : ColPage(ok)
    \/ \E ok \in BOOLEAN : ColGoto(ok)
    \/ \E k \in 0..MaxCards : \E cards \in [1..k -> CardKinds], ok \in BOOLEAN :
            ColScanned(cards, ok)
    \/ \E ok \in BOOLEAN : ColScrolled(ok)
    \/ ColClosed
    \/ ColCancelled

NextCollect ==
    \/ \E n \in 0..MaxKws, cap \in 0..MaxCap : ColStart(n, cap)
    \/ ColSteps
    \/ ColStop

SpecCollect == InitCollect /\ [][NextCollect]_vars /\ WF_vars(ColSteps)

\* --------------------- target-local failures: a Commenter run or a monitor
\* either the Commenter instance or one polling sub-routine is followed
Commenting == DOMAIN com # {}
Watching == DOMAIN mon # {}

\* the nodes without a platform id
HashedNodes == {node \in Nodes : node.id = ""}

InitLocal ==
    /\ InitCore
    /\ col = <<>> /\ lis = <<>> /\ db = <<>> /\ fn = <<>>
    /\ \/ com = NewCommenter /\ mon = <<>>
       \/ com = <<>> /\ mon = NewMonitor

NextLocal ==
    \/ Commenting /\ NextComment
    \/ /\ Watching
       /\ \E n \in 0..MaxNodes : \E nodes \in [1..n -> HashedNodes] :
            MonitorPoll(nodes, TRUE)
    \/ Watching /\ MonitorPoll(<<>>, FALSE)

SpecLocal == InitLocal /\ [][NextLocal]_vars

\* ------------------------------------------------------------- the claims
\* shutdown_all was invoked by p in the last step: it has ended in that step
\* or p is suspended inside it
ShutdownBegunBy(p) ==
    \/ evt.k = "shutdown" /\ evt.by = p
    \/ proc[p].pc \in {"await_t", "rc_ctx", "rc_pw"} /\ proc[p].top = "shutdown"

\* C1: a start_service(name) call made while the run recorded for name has
\* not terminated creates no task, leaves tasks[name] on the same task and
\* returns True.
C1_StartWhileActive ==
    (evt.k = "start" /\ evt.active) =>
        /\ evt.ret
        /\ Len(runs) = evt.nruns
        /\ Get(tasks, evt.n) = evt.prev
        /\ ~Done(runs[evt.prev])

\* a start_service call has just answered for a name whose run is active
C1_Witness ==
    /\ evt.k = "start" /\ evt.active /\ evt.ret
    /\ Get(tasks, evt.n) = evt.prev

\* C2: every run that has not terminated is the one recorded in tasks under
\* its service name (hence at most one per name).
C2_OneRunPerName ==
    \A i \in DOMAIN runs : ~Done(runs[i]) => Get(tasks, runs[i].svc) = i

\* C3: the start_service(name) that follows the return of stop_service(name)
\* creates a new run task, records it and returns True.
C3_StartAfterStop ==
    (evt.k = "start" /\ evt.afterStop) =>
        /\ evt.ret
        /\ Len(runs) = evt.nruns + 1
        /\ Get(tasks, evt.n) = Len(runs)
        /\ runs[Len(runs)].st = "created"

\* a start_service call has just followed the return of a stop_service that
\* found a handle recorded, and a run existed before it
C3_Witness ==
    /\ evt.k = "start" /\ evt.afterStop /\ evt.stopHad
    /\ Get(tasks, evt.n) = Len(runs)
    /\ \E i \in 1 .. evt.nruns : runs[i].svc = evt.n /\ Done(runs[i])

\* C4: when a shutdown_all invocation ends, every run that was recorded and
\* active when it was invoked has terminated and close() has been executed.
C4_ShutdownStopsAndCloses ==
    evt.k = "shutdown" => evt.closed /\ evt.allDone

\* C5: no session has its context closed, or its driver stopped, by more
\* than one shutdown_all invocation.
C5_NoDoubleClose ==
    \A s \in DOMAIN sess : sess[s].closes <= 1 /\ sess[s].stops <= 1

\* C6: run_loop never terminates.
C6_RunLoopAlive == proc["loop"].pc # "dead"

\* C7 (as claimed): run_loop invokes shutdown_all only at the first poll that
\* sees the entitlement invalid, not again while it stays invalid.
C7_OncePerTransition ==
    (obs.k = "poll" /\ ShutdownBegunBy("loop")) => obs.prev # "invalid"

\* C7 (amended): run_loop invokes shutdown_all at every poll that sees the
\* entitlement invalid, also when the previous poll saw it invalid, and at no
\* poll that sees it valid.
C7_EveryInvalidPoll ==
    obs.k = "poll" => (ShutdownBegunBy("loop") <=> ~obs.valid)

\* a poll has just invoked shutdown_all although the previous poll had seen
\* the entitlement invalid already
C7_Witness ==
    /\ obs.k = "poll" /\ ~obs.valid /\ obs.prev = "invalid"
    /\ ShutdownBegunBy("loop")

\* C8: a refused verification makes the shutdown callback run shutdown_all,
\* whatever the stored expiry.
C8_RefusedShutsDown ==
    obs.k = "refused" => ShutdownBegunBy("remote")

\* C9: no stop_service or shutdown_all call ends by raising.
C9_NoRaise ==
    evt.k \in {"stop", "shutdown"} => ~evt.raised

\* C10: when stop_service(name) is over, tasks has no entry for name.
C10_StopClearsHandle ==
    evt.k = "stop" => ~Has(tasks, evt.n)

\* the page borrower t works on
Using(t) == IF thr[t].rep THEN thr[t].rp ELSE thr[t].page

\* C16 (as claimed): the session never has more than one open page.
C16_OneOpenPage ==
    Cardinality({q \in DOMAIN pgs : pgs[q].open}) <= 1

\* C16 (amended): a new_page call opens a page exactly when it finds no open
\* page as it enumerates them; a call that finds one gets the first open page
\* and opens none.
C16_ReuseFirstElseOpen ==
    evt.k = "acquire" =>
        /\ evt.opens <=> evt.first = 0
        /\ evt.first # 0 => evt.got = evt.first
        /\ thr[evt.by].np = evt.got

\* a new_page call has just been handed the first open page, which another
\* run is using, while a second page is open
C16_Witness ==
    /\ evt.k = "acquire" /\ evt.first # 0 /\ ~evt.opens
    /\ \E u \in DOMAIN thr \ {evt.by} : thr[u].pc = "use" /\ Using(u) = evt.got
    /\ \E q \in DOMAIN pgs : q # evt.got /\ pgs[q].open

\* C17: the reply flow works on a page other than the watch page, and the
\* watch page is not closed by the Listener run itself while _monitor_item
\* holds it.
C17_WatchPageKept ==
    \A t \in DOMAIN thr \cap {MonRun} :
        /\ thr[t].rp # 0 => thr[t].rp # thr[t].page
        /\ (thr[t].page # 0 /\ ~pgs[thr[t].page].open) =>
               pgs[thr[t].page].by # MonRun

\* C18: the page a run works on, from its own navigation to its own close,
\* was navigated last by that run and has not been closed by another.
C18_PageNotShared ==
    \A t \in DOMAIN thr : thr[t].pc = "use" => pgs[Using(t)].by = t

\* C19: a borrower that has ended, sleeps between two targets or is
\* acquiring its next page has called close() on every page new_page
\* returned to it, and a page given up is closed.
C19_PagesReleased ==
    /\ \A t \in DOMAIN thr :
          /\ thr[t].pc \in Ended \cup {"sleep", "idle"} =>
                 thr[t].page = 0 /\ thr[t].rp = 0
          /\ thr[t].pc \in {"front", "opening", "home"} => Using(t) = 0
          /\ (thr[t].pc = "closing" /\ ~thr[t].rep) => thr[t].page = 0
    /\ evt.k = "release" => ~pgs[evt.page].open

\* a cancelled Collector or Commenter run has ended after giving up, in its
\* finally clause, the page it was working on
C19_Witness ==
    \E t \in DOMAIN thr \ {MonRun} :
        /\ thr[t].pc = "cancelled" /\ thr[t].k >= 1
        /\ \E q \in DOMAIN pgs : ~pgs[q].open /\ pgs[q].by = t

\* C20: a Collector run does not end on the failure of a keyword while
\* later keywords remain.
C20_KeywordFailureConfined ==
    \A t \in DOMAIN thr \cap {ColRun} :
        ~(thr[t].pc = "err" /\ thr[t].fail /\ thr[t].k < MaxItems)

\* C11: a start_service call with an unregistered name returns False, creates
\* no task and leaves tasks, the runs and the services' state as they were.
C11_UnregisteredStart ==
    evt.k = "start_other" => ~evt.ret /\ Sched = evt.S

\* start_service has just answered False for an unregistered name while runs
\* are recorded
C11_Witness ==
    /\ evt.k = "start_other" /\ evt.n \notin Names /\ ~evt.ret
    /\ tasks # <<>>

\* run task i ends in this step because it got no usable session: the launch
\* raised, or new_page raised RuntimeError after its second failure
SessionFailure(i) ==
    /\ runs'[i].st = "err"
    /\ \/ runs[i].st = "launch"
       \/ runs[i].st \in {"rc_ctx", "rc_pw"} /\ runs[i].from = "np"

\* C12: a run that ends for want of a usable session was not reported as
\* started: the start_service call that created it returned False.
C12_SessionFailureReported ==
    [][\A i \in DOMAIN runs : SessionFailure(i) => ~runs'[i].ret]_vars

\* C13: at most one launched session is open at any time.
C13_OneOpenSession ==
    Cardinality({s \in DOMAIN sess : sess[s].st = "open"}) <= 1

\* run task i is inside the reset that follows a TargetClosedError of new_page
InFailureReset(i) ==
    runs[i].st \in {"rc_ctx", "rc_pw"} /\ runs[i].from = "np"

\* C14: a new_page call makes at most two passes; it enters the second only
\* through the reset after a TargetClosedError of the first, and the reset
\* after a failure of the second ends the call with the RuntimeError (or the
\* task is cancelled): there is no third pass.
C14_TwoAttempts ==
    [][\A i \in DOMAIN runs :
          /\ runs'[i].att <= 2
          /\ (runs[i].att = 1 /\ runs'[i].att = 2) =>
                 \/ InFailureReset(i)
                 \/ runs[i].st = "page" /\ sess[runs[i].s].st # "open"
          /\ (runs[i].att = 2 /\ InFailureReset(i)) =>
                 runs'[i].st \in {"rc_ctx", "rc_pw", "err", "cancelled"}
          /\ (runs[i].att = 2 /\ runs'[i].att # 2) => runs'[i].att = 0]_vars

\* a new_page call is in the reset after the failure of its second pass
C14_Witness ==
    \E i \in DOMAIN runs : runs[i].att = 2 /\ InFailureReset(i)

\* C15: when the test of ensure_browser on the recorded context raises, the
\* call returns with the recorded handles as they were: no context closed,
\* no driver stopped, no launch begun, the lock released.
C15_CheckFailureAssumesAlive ==
    obs.k = "chk_raised" =>
        /\ ctx = obs.ctx /\ pw = obs.pw /\ lock = 0
        /\ obs.open => sess[ctx].st = "open"

\* C21: after XHSListenerService.stop() returns, every polling sub-routine
\* task created by any run of the instance that has not terminated has had
\* cancellation requested, the sub-routines of earlier runs included.
C21_StopCancelsAll ==
    evt.k = "lstop" => \A s \in Polling(lis) : lis.sub[s].cancel

\* C22: within one polling sub-routine, every comment identifier derived
\* from the nodes of its polls has exactly one observation record
\* (replied = 0) and at most one reply record (replied = 1), however many
\* polls showed it.
C22_OneRecordPerComment ==
    \A c \in mon.derived :
        /\ mon.recs[<<c, 0>>] = 1
        /\ mon.recs[<<c, 1>>] <= 1

\* the rule matching has been applied to a comment
Matched == fn.done /\ fn.in.f = "match"

\* the groups with a non-empty keyword occurring in the text
MatchingGroups ==
    {g \in DOMAIN fn.in.groups :
        \E i \in DOMAIN fn.in.groups[g].keywords :
            LET kw == fn.in.groups[g].keywords[i] IN
            kw # <<>> /\ Occurs(kw, fn.in.text)}

\* the first of them
FirstMatching == CHOOSE g \in MatchingGroups : \A h \in MatchingGroups : g <= h

\* C23 as stated: a reply is made with the template of the first group that
\* has a non-empty keyword occurring in the comment text, and no reply is made
\* when no group matches.
C23_FirstMatchReplies ==
    Matched =>
        IF MatchingGroups = {} THEN ~fn.out.made
        ELSE fn.out.made /\ fn.out.reply = fn.in.groups[FirstMatching].reply

\* C23 amended: the first matching group alone decides; a reply is made with
\* its template when the template is non-empty, none is made when it is
\* empty (later groups are not consulted) or when no group matches.
C23_FirstMatchDecides ==
    Matched =>
        IF MatchingGroups = {} THEN ~fn.out.made
        ELSE /\ fn.out.made <=> fn.in.groups[FirstMatching].reply # ""
             /\ fn.out.reply = fn.in.groups[FirstMatching].reply

\* a later group matches as well, with another template, and the reply is made
C23_Witness ==
    /\ Matched /\ fn.out.made
    /\ \E g \in MatchingGroups :
        g # FirstMatching /\ fn.in.groups[g].reply \notin {"", fn.out.reply}

\* the keyword parsing has been applied to a string
KeywordsParsed == fn.done /\ fn.in.f = "keywords" /\ fn.in.kind = "str"

Separators == {",", "U+FF0C", " "}

\* the maximal separator-free stretches <<i, j>> of string s
Stretches(s) ==
    {p \in (DOMAIN s) \X (DOMAIN s) :
        /\ p[1] <= p[2]
        /\ \A k \in p[1]..p[2] : s[k] \notin Separators
        /\ p[1] = 1 \/ s[p[1] - 1] \in Separators
        /\ p[2] = Len(s) \/ s[p[2] + 1] \in Separators}

\* C26: for a string the result is the sequence of non-empty tokens obtained
\* with comma, full-width comma and whitespace as separators, in input
\* order; "a b", "a,b", "a<U+FF0C>b" and the list ["a", "b"] all give
\* ["a", "b"].
C26_KeywordTokens ==
    /\ KeywordsParsed =>
        LET s == fn.in.s
            T == Stretches(s)
        IN /\ Len(fn.out) = Cardinality(T)
           /\ \A p \in T :
                fn.out[1 + Cardinality({q \in T : q[1] < p[1]})] = SubSeq(s, p[1], p[2])
    /\ (fn.done /\ fn.in.f = "keywords") =>
        /\ fn.in.kind = "str" =>
            (fn.in.s \in {<<"a", " ", "b">>, <<"a", ",", "b">>, <<"a", "U+FF0C", "b">>}
                => fn.out = << <<"a">>, <<"b">> >>)
        /\ fn.in.kind = "list" =>
            (fn.in.items = <<[str |-> TRUE, s |-> <<"a">>], [str |-> TRUE, s |-> <<"b">>]>>
                => fn.out = << <<"a">>, <<"b">> >>)

\* a string with a comma and a full-width comma has been split in two tokens
C26_Witness ==
    /\ KeywordsParsed /\ Len(fn.out) = 2
    /\ \E i, j \in DOMAIN fn.in.s : fn.in.s[i] = "," /\ fn.in.s[j] = "U+FF0C"

\* _parse_int has been applied to a counter text
Counted == fn.done /\ fn.in.f = "count"

\* C27: text with U+4E07 or w yields its numeric part times 10000, text
\* with k its numeric part times 1000, any other text the integer formed by
\* its digits (0 without digits), whenever the numeric part is a decimal
\* number; "1.2<U+4E07>" gives 12000, "3k" 3000, "2,345" 2345, "" 0.
C27_ParseInt ==
    Counted =>
        /\ Decimal(Remove(Remove(fn.in.text, "+"), ",")).ok =>
               fn.out = ParseIntBy(TRUE, fn.in.text)
        /\ fn.in.text = <<"1", ".", "2", "U+4E07">> => fn.out.v = 12000
        /\ fn.in.text = <<"3", "k">> => fn.out.v = 3000
        /\ fn.in.text = <<"2", ",", "3", "4", "5">> => fn.out.v = 2345
        /\ fn.in.text = <<>> => fn.out.v = 0

\* C25: after any sequence of insert_or_update_item calls xhs_items holds
\* exactly one row per distinct item_url, and that row's title, keyword,
\* counters and type are those of the most recent call for the URL.
C25_OneRowPerUrl ==
    /\ \A i, j \in DOMAIN db.rows :
        db.rows[i].item_url = db.rows[j].item_url => i = j
    /\ {db.rows[i].item_url : i \in DOMAIN db.rows} = DOMAIN db.last
    /\ \A i \in DOMAIN db.rows :
        LET r == db.rows[i]
            c == db.last[r.item_url]
        IN /\ r.title = c.title /\ r.keyword = c.keyword
           /\ r.counts = c.counts /\ r.type = c.type

\* a call has just replaced the values of an existing row, commented before,
\* in a table of several rows
C25_Witness ==
    /\ evt.k = "upsert" /\ evt.over
    /\ Len(db.rows) > 1
    /\ db.rows[RowOf(db.rows, evt.url)].comment_status = "commented"

C28_SleepStops ==
    /\ com.pc = "psleep" =>
        /\ com.rem <= Step
        /\ com.slept + Min(Step, com.interval - com.slept) <= com.interval
    /\ (evt.k = "slept") => evt.step <= Step
    /\ com.halt = "psleep" =>
        /\ com.pc \in {"psleep", "done"}
        /\ com.after <= Step
        /\ com.pagesAfter = 0 /\ com.postsAfter = 0

\* stop() came during the sleep, time passed in it, and the run has ended
\* with targets left
C28_Witness ==
    /\ com.halt = "psleep" /\ com.pc = "done"
    /\ com.after > 0 /\ com.i <= com.n /\ com.total < com.max_total

\* C29: when stop() is called while the run sleeps out the minimum interval
\* before a target, or waits for that target's page, no comment is posted to
\* the target.
C29_StopBeforePage ==
    com.halt \in {"msleep", "acquire"} => com.postsAfter = 0

\* C30: a successful comment that follows an earlier one of the same
\* instance has its page acquired at least min_interval_min minutes after
\* the timestamp recorded for the earlier one.
C30_MinInterval ==
    (evt.k = "posted" /\ evt.had) => evt.gap >= evt.min * Minute

\* the first target of a second run is commented after the run slept out
\* exactly the rest of the minimum interval
C30_Witness ==
    /\ evt.k = "posted" /\ evt.had /\ evt.target = 1
    /\ com.runs = 2 /\ evt.min > 0 /\ evt.gap = evt.min * Minute
    /\ com.sleeps = 1

\* C34: insert_or_update_item on a URL that already has a row leaves that
\* row's comment_status and last_comment_time as they were, and leaves every
\* other row of xhs_items unchanged.
C34_UpsertFrame ==
    [][evt'.k = "upsert" =>
        \A i \in DOMAIN db.rows :
            LET r == db.rows[i]
                j == RowOf(db'.rows, r.item_url)
            IN /\ j # 0
               /\ db'.rows[j].comment_status = r.comment_status
               /\ db'.rows[j].last_comment_time = r.last_comment_time
               /\ r.item_url # evt'.url => db'.rows[j] = r]_vars

\* a call has just rewritten a row marked as commented at time 2, next to
\* another row marked at time 1
C34_Witness ==
    /\ evt.k = "upsert" /\ evt.over
    /\ LET r == db.rows[RowOf(db.rows, evt.url)]
       IN r.comment_status = "commented" /\ r.last_comment_time = 2
    /\ \E i \in DOMAIN db.rows :
        /\ db.rows[i].item_url # evt.url
        /\ db.rows[i].comment_status = "commented"
        /\ db.rows[i].last_comment_time = 1

\* C31: for every keyword _collect_for_keyword performs at most
\* items_per_keyword upserts and at most 40 scroll steps; once stop() has
\* been called the run starts no further keyword; and every keyword that is
\* started is left again, whatever the page shows.
C31_KeywordBounded ==
    /\ [](/\ col.upserts <= col.cap
          /\ col.scrolls <= max_scroll
          /\ evt.k = "keyword" /\ col.pc \in InKeyword => ~evt.stopped)
    /\ \A kw \in 1..MaxKws :
        (col.pc \in InKeyword /\ col.kw = kw)
            ~> ~(col.pc \in InKeyword /\ col.kw = kw)

\* a keyword that showed no item was left after 40 scroll steps, and stop()
\* came while its page was closed, with a keyword still to do
C31_Witness ==
    /\ col.pc = "cancelled" /\ col.stopped
    /\ col.kw < col.n
    /\ col.cap > 0 /\ col.upserts = 0
    /\ col.scrolls = max_scroll

\* C33: once ensure_browser has returned with a session launched (the
\* session is open), no step clears the recorded context handle of that
\* session or stops its driver while it is still open: a close or reset
\* that starts after the return closes the context before it does either,
\* so only a _reset_context that began earlier, for a stale session, can
\* take such a step.
C33_LiveSessionKept ==
    [][\A s \in DOMAIN sess :
          sess[s].st = "open" =>
              /\ sess'[s].st # "stopped"
              /\ ctx = s => ctx' = s]_vars

\* C32: a failure while one target is navigated to, filled in or submitted
\* leaves the Commenter's total and the mark_item_commented calls as they
\* were and does not end the run, which ends with an error only out of
\* new_page; a failure in the handling of one comment node or of one reply
\* leaves the Listener's sub-routine in its polling loop.
C32_FailureConfined ==
    /\ [][Commenting /\ evt'.k = "failed" =>
            /\ com'.total = com.total
            /\ com'.posts = com.posts
            /\ com'.pc \notin ComOver]_vars
    /\ [][Commenting /\ com'.pc = "error" => com.pc \in {"acquire", "error"}]_vars
    /\ [](Watching => mon.pc = "poll")

\* the attempt on the first target failed and the run has acquired the page
\* for the second one
C32_Witness ==
    /\ Commenting
    /\ evt.k = "page" /\ evt.target = 2
    /\ com.total = 0 /\ com.posts = 0

\* a poll in which the extraction of a node and a reply raised is over
C32_PollWitness ==
    /\ Watching
    /\ evt.k = "poll" /\ evt.raised
    /\ mon.pc = "poll"

====
